---- MODULE Spec2Model ----
(***************************************************************************)
(* Patient registry store of the clinic backend                           *)
(* (backend/internal/database/mock.go, MockPatientRepository).             *)
(*                                                                         *)
(* Spec     : callers invoke the store one call at a time; every handler   *)
(*            is one action (the whole critical section).                  *)
(* SpecConc : several callers run the handlers concurrently; the RWMutex   *)
(*            acquisitions and every statement of a critical section that  *)
(*            touches the shared map are separate steps.                   *)
(* SpecLive : SpecConc's callers preceded by the constructor's seeding,    *)
(*            under the fairness of the Go scheduler and of sync.RWMutex.  *)
(* SpecAPI  : HTTP requests routed by main (unnamed/part_000) to the       *)
(*            handlers of package handlers, which call the store.          *)
(* SpecParse: the hospital-number and age functions of the add-patient     *)
(*            form and of the handlers, applied to bounded inputs.         *)
(* SpecForm : the two AddPatientForm components of the frontend           *)
(*            (frontend/src/app/add-patient/page.tsx): every handler is    *)
(*            one action, the render effects included.                     *)
(* SpecSubmit: the same components filled field by field, submitted, and   *)
(*            the response of the backend handled.                         *)
(* SpecAlias: the store with the *string fields of Patient as pointers     *)
(*            into a heap it shares with its caller.                       *)
(***************************************************************************)
EXTENDS Integers, Sequences, FiniteSets, TLC

(* ------------------------------ bounds -------------------------------- *)
\* ids handed to GetByID / Delete are 1..MaxId
MaxId == 3
\* the clock stops advancing once it shows MaxClock
MaxClock == 4
\* number of Create and Update calls of one run of Spec
MaxOps == 2
\* number of Delete calls of one run of Spec
MaxDeletes == 3
\* number of concurrent callers of SpecConc
NumProcs == 2
\* raw hospital numbers have up to MaxTail characters after their prefix
MaxTail == 7
\* the ages handed to validateAge are -MaxAge .. MaxAge
MaxAge == 152
\* phone numbers have up to MaxPhoneDigits digits
MaxPhoneDigits == 13
\* number of user events handled by a form in one run of SpecForm
MaxEvents == 4
\* number of user events handled by a form in one run of SpecSubmit
MaxFill == 6
\* number of calls and caller steps in one run of SpecAlias
MaxSteps == 4

(* --------------------------- strings, ids ------------------------------ *)
\* A Go string is modelled as the sequence of its characters.
DigitChar(d) ==
    CASE d = 0 -> "0" [] d = 1 -> "1" [] d = 2 -> "2" [] d = 3 -> "3"
      [] d = 4 -> "4" [] d = 5 -> "5" [] d = 6 -> "6" [] d = 7 -> "7"
      [] d = 8 -> "8" [] d = 9 -> "9"

RECURSIVE Decimal(_)
\* decimal digits of a natural number, most significant first ("%d")
Decimal(n) == IF n < 10 THEN <<DigitChar(n)>>
              ELSE Decimal(n \div 10) \o <<DigitChar(n % 10)>>

RECURSIVE ZeroPad(_, _)
\* left-pad with "0" up to the given width; longer strings are kept whole
ZeroPad(s, width) == IF Len(s) >= width THEN s ELSE ZeroPad(<<"0">> \o s, width)

\* mutant: the id is printed without padding ("HN%d")
HNStringUnpadded(id) == <<"H", "N">> \o Decimal(id)

\* hnString := fmt.Sprintf("HN%06d", id)
\* (%06d: minimum width 6 counting the sign)
HNString(id) ==
    <<"H", "N">> \o (IF id >= 0 THEN ZeroPad(Decimal(id), 6)
                     ELSE <<"-">> \o ZeroPad(Decimal(0 - id), 5))

Ids == 1 .. MaxId

\* the hospital number literal "HN00000d" of a one-digit number d
CanonicalHN(d) == <<"H", "N", "0", "0", "0", "0", "0", DigitChar(d)>>

\* a hospital number the store accepts although no id formats to it ("HN1")
ShortHN == <<"H", "N", "1">>

\* the HN values callers put into a Patient handed to Create / Update:
\* the first seeded one, and the short one
HNInputs == {CanonicalHN(1), ShortHN}

\* the decimal digits as characters
Digits == {"0", "1", "2", "3", "4", "5", "6", "7", "8", "9"}

RECURSIVE Value(_, _)
\* the number a string of digits denotes in the given base
Value(s, base) ==
    IF s = <<>> THEN 0
    ELSE LET DigitVal(c) == CHOOSE d \in 0 .. 9 : DigitChar(d) = c
         IN  base * Value(SubSeq(s, 1, Len(s) - 1), base) + DigitVal(s[Len(s)])

\* mutant: the base is taken from the prefix, a leading 0 meaning octal
ParseIntBase0(tok) ==
    IF Len(tok) > 1 /\ tok[1] = "0" THEN Value(tok, 8) ELSE Value(tok, 10)

\* strconv.ParseInt(tok, 10, 64)
ParseInt(tok) == Value(tok, 10)

RECURSIVE SkipSpace(_)
\* ss.SkipSpace: blanks before a number are passed over
SkipSpace(s) == IF s # <<>> /\ s[1] = " " THEN SkipSpace(Tail(s)) ELSE s

RECURSIVE ScanNumber(_)
\* ss.scanNumber: the longest prefix of digits
ScanNumber(s) == IF s # <<>> /\ s[1] \in Digits
                 THEN <<s[1]>> \o ScanNumber(Tail(s))
                 ELSE <<>>

\* fmt.Sscanf(hnString, "HN%d", &id): the literals H and N, then blanks, an
\* optional sign and at least one digit; what follows the digits is left
\* unread. (Inputs are short of the 19 digits that overflow an int.)
ScanHN(s) ==
    IF Len(s) < 2 \/ s[1] # "H" \/ s[2] # "N"
    THEN [err |-> TRUE, id |-> 0]
    ELSE LET rest == SkipSpace(SubSeq(s, 3, Len(s)))
             signed == rest # <<>> /\ rest[1] \in {"+", "-"}
             tok == ScanNumber(IF signed THEN Tail(rest) ELSE rest)
         IN  IF tok = <<>> THEN [err |-> TRUE, id |-> 0]
             ELSE [err |-> FALSE,
                   id |-> IF signed /\ rest[1] = "-" THEN 0 - ParseInt(tok)
                          ELSE ParseInt(tok)]

(* ------------------------------ Patient -------------------------------- *)
\* nil of the *string fields
Nil == "nil"
\* the zero time.Time of a Patient the store has not stamped
ZeroTime == 0

Patient(hn, fullName, gender, nickname, phone, age, dateOfBirth, photo) ==
    [HN |-> hn, FullName |-> fullName, Gender |-> gender, Nickname |-> nickname,
     Phone |-> phone, Age |-> age, DateOfBirth |-> dateOfBirth, Photo |-> photo,
     CreatedAt |-> ZeroTime, UpdatedAt |-> ZeroTime]

\* createSampleData's three patients (names transliterated)
samplePatients ==
    << Patient(CanonicalHN(1), "Nai Somchai Jaidee", "chai", "chai",
               "081-234-5678", 35, "1989-03-15", Nil),
       Patient(CanonicalHN(2), "Nangsao Somying Suayngam", "ying", "ying",
               "082-345-6789", 28, "1996-07-22", Nil),
       Patient(CanonicalHN(3), "Nai Wichai Kengkat", "chai", "wichai",
               "083-456-7890", 42, "1982-11-08", Nil) >>

\* request bodies: one with every optional field omitted, one with all set
BodyA(hn) == Patient(hn, "Somsri Meesuk", "ying", Nil, Nil, 30, Nil, Nil)
BodyB(hn) == Patient(hn, "Nai Prasit Rakthai", "chai", "sit",
                     "089-876-5432", 61, "1963-01-02", "data:image/png;base64,AA")

\* the placeholder of "no patient" in the call record
NoPatient == Patient(<<>>, "", "", Nil, Nil, 0, Nil, Nil)

MutableFields == {"FullName", "Gender", "Nickname", "Phone", "Age",
                  "DateOfBirth", "Photo"}

\* two Patient values agree on everything but the two timestamps
SameButTimes(a, b) == /\ a.HN = b.HN
                      /\ \A f \in MutableFields : a[f] = b[f]

(* ------------------------------- state --------------------------------- *)
VARIABLES
    patients,   \* r.patients: map[string]*Patient, as a function HN -> Patient
    clock,      \* the instant time.Now() last returned
    last,       \* the call that returned last: operation, arguments, results
    created,    \* the arguments r of the successful Creates not deleted since
    updated,    \* HNs updated since the Create that inserted them
    deleted,    \* HNs deleted successfully and not created again since
    nOps,       \* number of Create and Update calls made
    nDeletes,   \* number of Delete calls made
    mutex,      \* r.mutex: [w |-> writers inside, r |-> readers inside]
    pc,         \* per caller: the statement it executes next
    call,       \* per caller: the call it is running, with its locals
    seeding,    \* createSampleData: the number of samples handed to Create
    resp,       \* the HTTP exchange served last: request and response
    input,      \* the raw value handed to a parsing / validation function
    output,     \* what the function applied last made of it
    component,  \* which AddPatientForm component is mounted
    formData,   \* the form's formData state
    isSubmitting,       \* the form's isSubmitting state
    error,              \* the form's error state
    success,            \* the form's success state
    photoPreview,       \* the form's photoPreview state
    fieldValidations,   \* the form's fieldValidations state
    touchedFields,      \* the form's touchedFields state, as a set of names
    readers,    \* the files whose FileReader has not called onload yet
    posted,     \* the bodies of the POST requests issued so far
    supplied,   \* the gender the user selected last while no honorific was
                \* selected, and the name the user typed last
    removed,    \* removePhoto has run and no file was selected since
    nEvents,    \* number of user events handled
    heap,       \* the strings behind the *string fields, by address
    ptrs,       \* per stored record: the addresses in its *string fields
    held,       \* the Patient struct in the caller's hands
    nSteps      \* number of steps taken in a run of SpecAlias

vars == <<patients, clock, last, created, updated, deleted, nOps, nDeletes,
          mutex, pc, call, seeding, resp, input, output,
          component, formData, isSubmitting, error, success, photoPreview,
          fieldValidations, touchedFields, readers, posted, supplied, removed,
          nEvents, heap, ptrs, held, nSteps>>

storeVars == <<patients, clock, last, created, updated, deleted, nOps, nDeletes>>
concVars  == <<mutex, pc, call>>
liveVars  == <<seeding>>
apiVars   == <<resp>>
parseVars == <<input, output>>
formVars  == <<component, formData, isSubmitting, error, success, photoPreview,
               fieldValidations, touchedFields, readers, posted, supplied,
               removed, nEvents>>
aliasVars == <<heap, ptrs, held, nSteps>>

Procs == 1 .. NumProcs

Ok == "nil"
ErrExists == "already exists"
ErrNotFound == "not found"

\* the record of a returned call; ret holds the returned Patient values
Call(op, id, p, err, ret) == [op |-> op, id |-> id, p |-> p, err |-> err, ret |-> ret]

\* time.Now(): the clock is monotonic and may or may not have advanced
Now(c) == {t \in c .. c + 1 : t <= MaxClock}

(* ----------------------- the handlers' computations -------------------- *)
\* Create: p.CreatedAt = time.Now(); p.UpdatedAt = time.Now()
CreateStamp(p, t1, t2) == [p EXCEPT !.CreatedAt = t1, !.UpdatedAt = t2]

\* mutant: the store numbers the records itself (key from the record count)
CreateInsertNextID(m, p) ==
    LET k == HNString(Cardinality(DOMAIN m) + 1)
    IN  [h \in DOMAIN m \cup {k} |-> IF h = k THEN p ELSE m[h]]

\* Create: patientCopy := *p; r.patients[p.HN] = &patientCopy
CreateInsert(m, p) == [h \in DOMAIN m \cup {p.HN} |-> IF h = p.HN THEN p ELSE m[h]]

\* mutant: Create without the "already exists" check
CreateRejectsNever(m, p) == FALSE

\* Create: if _, exists := r.patients[p.HN]; exists { return error }
CreateRejects(m, p) == p.HN \in DOMAIN m

\* mutant: Phone and Photo are not copied
UpdateFieldsPartial(existing, p, t) ==
    [existing EXCEPT !.FullName = p.FullName, !.Gender = p.Gender,
                     !.Nickname = p.Nickname, !.Age = p.Age,
                     !.DateOfBirth = p.DateOfBirth, !.UpdatedAt = t]

\* mutant: the stored record is replaced by the caller's, stamped anew
UpdateFieldsRestamp(existing, p, t) == [p EXCEPT !.CreatedAt = t, !.UpdatedAt = t]

\* Update: the i-th of the eight assignments to *existing, in program order
UpdateAssignment(existing, p, t, i) ==
    CASE i = 1 -> [existing EXCEPT !.FullName = p.FullName]
      [] i = 2 -> [existing EXCEPT !.Gender = p.Gender]
      [] i = 3 -> [existing EXCEPT !.Nickname = p.Nickname]
      [] i = 4 -> [existing EXCEPT !.Phone = p.Phone]
      [] i = 5 -> [existing EXCEPT !.Age = p.Age]
      [] i = 6 -> [existing EXCEPT !.DateOfBirth = p.DateOfBirth]
      [] i = 7 -> [existing EXCEPT !.Photo = p.Photo]
      [] i = 8 -> [existing EXCEPT !.UpdatedAt = t]

RECURSIVE UpdateApply(_, _, _, _)
\* the first n assignments applied
UpdateApply(existing, p, t, n) ==
    IF n = 0 THEN existing
    ELSE UpdateAssignment(UpdateApply(existing, p, t, n - 1), p, t, n)

\* Update: the eight assignments to *existing
UpdateFields(existing, p, t) == UpdateApply(existing, p, t, 8)

\* Update: p.CreatedAt = existing.CreatedAt; p.UpdatedAt = existing.UpdatedAt
UpdateReturn(existing, p) ==
    [p EXCEPT !.CreatedAt = existing.CreatedAt, !.UpdatedAt = existing.UpdatedAt]

\* mutant: delete leaves the map as it is
DeleteKeyNoop(m, h) == m

\* Delete: delete(r.patients, hnString)
DeleteKey(m, h) == [k \in DOMAIN m \ {h} |-> m[k]]

\* mutant: oldest first
lessBefore(a, b) == a.CreatedAt < b.CreatedAt

\* GetAll: the less function, patients[i].CreatedAt.After(patients[j].CreatedAt)
less(a, b) == a.CreatedAt > b.CreatedAt

RECURSIVE InsertSorted(_, _)
\* one pass of the insertion sort: x moves left while less(x, its left neighbour)
InsertSorted(s, x) ==
    IF s = <<>> THEN <<x>>
    ELSE IF less(x, s[Len(s)])
         THEN InsertSorted(SubSeq(s, 1, Len(s) - 1), x) \o <<s[Len(s)]>>
         ELSE s \o <<x>>

RECURSIVE GetAllResults(_, _)
\* GetAll: the slices it may return for the records under the keys S.
\* "for _, p := range r.patients" visits the keys in any order; sort.Slice on
\* fewer than 12 elements is an insertion sort by less, so the element
\* visited last (k) is inserted into the sorted slice of the others.
GetAllResults(m, S) ==
    IF S = {} THEN {<<>>}
    ELSE UNION {{InsertSorted(s, m[k]) : s \in GetAllResults(m, S \ {k})} : k \in S}

\* GetByID: the lookup under the formatted key; a copy or the error
GetByIDResult(m, id) ==
    LET hnString == HNString(id)
    IN  IF hnString \notin DOMAIN m
        THEN [err |-> ErrNotFound, ret |-> <<>>]
        ELSE [err |-> Ok, ret |-> <<m[hnString]>>]

(* ------------------------- construction (Init) ------------------------- *)
\* createSampleData: r.Create(p) for the three samples, errors ignored
RECURSIVE Seeded(_, _)
Seeded(n, ts) ==
    IF n = 0 THEN <<>>
    ELSE LET m == Seeded(n - 1, ts)
             p == samplePatients[n]
         IN  IF CreateRejects(m, p) THEN m
             ELSE CreateInsert(m, CreateStamp(p, ts[2 * n - 1], ts[2 * n]))

\* the instants the six time.Now() calls of the seeding may return
SeedTimes ==
    {ts \in [1 .. 6 -> ZeroTime + 1 .. ZeroTime + 2] :
        /\ ts[1] = ZeroTime + 1
        /\ \A i \in 1 .. 5 : ts[i + 1] \in Now(ts[i])
        \* the seeding takes one tick of the clock, inside the second Create
        /\ ts[3] = ts[1] /\ ts[4] # ts[3]}

NoCall == Call("none", 0, NoPatient, Ok, <<>>)

\* an HTTP exchange: the request (method, the path segment after
\* /api/patients/, decoded body) and the response (status, encoded records)
Exchange(method, segment, body, status, ret) ==
    [method |-> method, segment |-> segment, body |-> body,
     status |-> status, ret |-> ret]

NoOutput == [fn |-> "none"]

\* a call of a concurrent caller: the call record, the number i of Update
\* assignments applied so far, the callers whose calls had returned when it
\* began, and whether a read copied a record it found half-assigned
ConcCall(op, id, p) ==
    [op |-> op, id |-> id, p |-> p, err |-> Ok, ret |-> <<>>,
     i |-> 0, after |-> {}, torn |-> FALSE]

NoConcCall == ConcCall("none", 0, NoPatient)

InitStore ==
    \E ts \in SeedTimes :
        /\ patients = Seeded(3, ts)
        /\ clock = ts[6]
        /\ last = NoCall
        /\ created = {samplePatients[n] : n \in 1 .. 3}
        /\ updated = {}
        /\ deleted = {}
        /\ nOps = 0
        /\ nDeletes = 0

InitConc ==
    /\ mutex = [w |-> {}, r |-> {}]
    /\ pc = [self \in Procs |-> "idle"]
    /\ call = [self \in Procs |-> NoConcCall]

\* the variables of the other specifications stay at rest
InitLive == seeding = Len(samplePatients)
InitAPI == resp = Exchange("none", <<>>, NoPatient, 0, <<>>)
InitParse == input = [kind |-> "none"] /\ output = NoOutput

\* the names of the form's fields
Fields == {"hn", "titlePrefix", "fullName", "gender", "nickname", "phone",
           "age", "dateOfBirth"}

\* useState<PatientFormData>({...}): strings are sequences of characters,
\* a date is <<year, month, day>>, a photo is named by its file
EmptyFormData ==
    [hn |-> <<>>, titlePrefix |-> <<>>, fullName |-> <<>>, gender |-> "",
     nickname |-> <<>>, phone |-> <<>>, age |-> 0, dateOfBirth |-> <<>>,
     photo |-> ""]

\* fieldValidations[name] of a name that has no entry
NoValidation == [isValid |-> TRUE, message |-> "", type |-> "undefined"]

\* what the user entered last: nothing yet
NothingSupplied == [gender |-> "", fullName |-> <<>>]

\* the state of a form component after its first render
MountForm(c) ==
    /\ component = c
    /\ formData = EmptyFormData
    /\ isSubmitting = FALSE
    /\ error = ""
    /\ success = FALSE
    /\ photoPreview = ""
    /\ fieldValidations = [f \in Fields |-> NoValidation]
    /\ touchedFields = {}
    /\ readers = {}
    /\ posted = <<>>
    /\ supplied = NothingSupplied
    /\ removed = FALSE
    /\ nEvents = 0

\* no page is open: neither form component is mounted
InitForm ==
    /\ component = "none"
    /\ formData = <<>>
    /\ isSubmitting = FALSE
    /\ error = ""
    /\ success = FALSE
    /\ photoPreview = ""
    /\ fieldValidations = <<>>
    /\ touchedFields = {}
    /\ readers = {}
    /\ posted = <<>>
    /\ supplied = <<>>
    /\ removed = FALSE
    /\ nEvents = 0

\* the optional fields of Patient, of type *string, and the nil pointer
PointerFields == {"Nickname", "Phone", "DateOfBirth", "Photo"}
NilPtr == 0

\* no struct in the caller's hands
NoHeld == [HN |-> <<>>]

InitAlias == heap = <<>> /\ ptrs = <<>> /\ held = NoHeld /\ nSteps = 0

Init ==
    /\ InitStore /\ InitConc /\ InitLive /\ InitAPI /\ InitParse /\ InitForm
    /\ InitAlias

(* ------------- the store's methods, each one atomic step --------------- *)
\* MockPatientRepository.Create
RepoCreate(p) ==
    /\ nOps < MaxOps
    /\ nOps' = nOps + 1
    /\ UNCHANGED nDeletes
    /\ IF CreateRejects(patients, p)
       THEN /\ last' = Call("Create", 0, p, ErrExists, <<>>)
            /\ UNCHANGED <<patients, clock, created, updated, deleted>>
       ELSE \E t1 \in Now(clock) : \E t2 \in Now(t1) :
              LET q == CreateStamp(p, t1, t2)
              IN  /\ patients' = CreateInsert(patients, q)
                  /\ clock' = t2
                  /\ last' = Call("Create", 0, q, Ok, <<>>)
                  /\ created' = created \cup {p}
                  /\ updated' = updated \ {p.HN}
                  /\ deleted' = deleted \ {p.HN}

\* MockPatientRepository.Update
RepoUpdate(p) ==
    /\ nOps < MaxOps
    /\ nOps' = nOps + 1
    /\ UNCHANGED nDeletes
    /\ IF p.HN \notin DOMAIN patients
       THEN /\ last' = Call("Update", 0, p, ErrNotFound, <<>>)
            /\ UNCHANGED <<patients, clock, created, updated, deleted>>
       ELSE \E t \in Now(clock) :
              LET existing == UpdateFields(patients[p.HN], p, t)
              IN  /\ patients' = [patients EXCEPT ![p.HN] = existing]
                  /\ clock' = t
                  /\ last' = Call("Update", 0, UpdateReturn(existing, p), Ok, <<>>)
                  /\ updated' = updated \cup {p.HN}
                  /\ UNCHANGED <<created, deleted>>

\* MockPatientRepository.Delete
RepoDelete(id) ==
    /\ nDeletes < MaxDeletes
    /\ nDeletes' = nDeletes + 1
    /\ UNCHANGED nOps
    /\ LET hnString == HNString(id)
       IN  IF hnString \notin DOMAIN patients
           THEN /\ last' = Call("Delete", id, NoPatient, ErrNotFound, <<>>)
                /\ UNCHANGED <<patients, created, updated, deleted>>
           ELSE /\ patients' = DeleteKey(patients, hnString)
                /\ last' = Call("Delete", id, NoPatient, Ok, <<>>)
                /\ created' = {r \in created : r.HN # hnString}
                /\ updated' = updated \ {hnString}
                /\ deleted' = deleted \cup {hnString}
    /\ UNCHANGED clock

\* MockPatientRepository.GetAll
RepoGetAll ==
    /\ \E list \in GetAllResults(patients, DOMAIN patients) :
          last' = Call("GetAll", 0, NoPatient, Ok, list)
    /\ UNCHANGED <<patients, clock, created, updated, deleted, nOps, nDeletes>>

\* MockPatientRepository.GetByID
RepoGetByID(id) ==
    /\ LET res == GetByIDResult(patients, id)
       IN  last' = Call("GetByID", id, NoPatient, res.err, res.ret)
    /\ UNCHANGED <<patients, clock, created, updated, deleted, nOps, nDeletes>>

(* ------------------- Spec: one handler, one action --------------------- *)
\* the variables the store's methods do not touch
offStore == <<concVars, liveVars, apiVars, parseVars, formVars, aliasVars>>

\* the five methods called directly, one call at a time
Create(p) == RepoCreate(p) /\ UNCHANGED offStore
Update(p) == RepoUpdate(p) /\ UNCHANGED offStore
Delete(id) == RepoDelete(id) /\ UNCHANGED offStore
GetAll == RepoGetAll /\ UNCHANGED offStore
GetByID(id) == RepoGetByID(id) /\ UNCHANGED offStore

Next ==
    \/ \E h \in HNInputs : Create(BodyB(h))
    \/ \E h \in HNInputs : \E p \in {BodyA(h), BodyB(h)} : Update(p)
    \/ \E id \in Ids : Delete(id)
    \/ GetAll
    \/ \E id \in Ids : GetByID(id)

Spec == Init /\ [][Next]_vars

\* the keys the map can hold: the seeded ones and the callers'
StoreHNs == {samplePatients[n].HN : n \in 1 .. 3} \cup HNInputs

TypeOK == /\ DOMAIN patients \subseteq StoreHNs
          /\ \A r \in created : r.HN \in DOMAIN patients
          /\ updated \subseteq DOMAIN patients
          /\ deleted \cap DOMAIN patients = {}
          /\ clock \in ZeroTime + 1 .. MaxClock
          /\ nOps \in 0 .. MaxOps
          /\ nDeletes \in 0 .. MaxDeletes

(* ------------- SpecConc: concurrent callers and the RWMutex ------------ *)
\* the next free hospital number after the seeded ones ("HN000004")
NextHN == CanonicalHN(4)

\* mutant: Update takes the read lock
LockModeUpdateShared(op) == IF op \in {"GetAll", "GetByID", "Update"} THEN "R" ELSE "W"

\* mutant: Create takes the read lock
LockModeCreateShared(op) == IF op \in {"GetAll", "GetByID", "Create"} THEN "R" ELSE "W"

\* r.mutex.RLock() in GetAll and GetByID, r.mutex.Lock() in the three writers
LockMode(op) == IF op \in {"GetAll", "GetByID"} THEN "R" ELSE "W"

\* the statements executed between acquiring and releasing r.mutex
InsideLock == {"range", "get", "check", "insert", "lookup", "assign", "delete", "unlock"}

\* a record of the map is half-assigned: an Update of it has applied some,
\* not all, of its assignments
HalfAssigned(hn) ==
    \E w \in Procs : /\ pc[w] = "assign"
                     /\ call[w].p.HN = hn
                     /\ call[w].i > 0

\* a caller invokes one of the five methods
Start(self, c) ==
    /\ pc[self] = "idle"
    /\ pc' = [pc EXCEPT ![self] = "lock"]
    /\ call' = [call EXCEPT ![self] =
                  [c EXCEPT !.after = {q \in Procs : pc[q] = "returned"}]]
    /\ UNCHANGED <<liveVars, apiVars, parseVars, formVars, aliasVars, storeVars, mutex>>

\* r.mutex.RLock() / r.mutex.Lock(): blocks while the lock is not available
Acquire(self) ==
    /\ pc[self] = "lock"
    /\ IF LockMode(call[self].op) = "R"
       THEN /\ mutex.w = {}
            /\ mutex' = [mutex EXCEPT !.r = @ \cup {self}]
       ELSE /\ mutex.w = {} /\ mutex.r = {}
            /\ mutex' = [mutex EXCEPT !.w = @ \cup {self}]
    /\ pc' = [pc EXCEPT ![self] = CASE call[self].op = "GetAll" -> "range"
                                     [] call[self].op = "GetByID" -> "get"
                                     [] call[self].op = "Create" -> "check"
                                     [] call[self].op = "Update" -> "lookup"
                                     [] call[self].op = "Delete" -> "delete"]
    /\ UNCHANGED <<liveVars, apiVars, parseVars, formVars, aliasVars, storeVars, call>>

\* GetAll: copy every record, sort
GetAllRange(self) ==
    /\ pc[self] = "range"
    /\ \E list \in GetAllResults(patients, DOMAIN patients) :
          call' = [call EXCEPT ![self].ret = list,
                               ![self].torn = \E h \in DOMAIN patients : HalfAssigned(h)]
    /\ pc' = [pc EXCEPT ![self] = "unlock"]
    /\ UNCHANGED <<liveVars, apiVars, parseVars, formVars, aliasVars, storeVars, mutex>>

\* GetByID: look the formatted key up, copy the record
GetByIDGet(self) ==
    /\ pc[self] = "get"
    /\ LET res == GetByIDResult(patients, call[self].id)
       IN  call' = [call EXCEPT ![self].err = res.err,
                                ![self].ret = res.ret,
                                ![self].torn = /\ res.err = Ok
                                               /\ HalfAssigned(HNString(call[self].id))]
    /\ pc' = [pc EXCEPT ![self] = "unlock"]
    /\ UNCHANGED <<liveVars, apiVars, parseVars, formVars, aliasVars, storeVars, mutex>>

\* Create: the existence check
CreateCheck(self) ==
    /\ pc[self] = "check"
    /\ IF CreateRejects(patients, call[self].p)
       THEN /\ call' = [call EXCEPT ![self].err = ErrExists]
            /\ pc' = [pc EXCEPT ![self] = "unlock"]
       ELSE /\ pc' = [pc EXCEPT ![self] = "insert"]
            /\ UNCHANGED call
    /\ UNCHANGED <<liveVars, apiVars, parseVars, formVars, aliasVars, storeVars, mutex>>

\* Create: stamp p and store the copy
CreateStore(self) ==
    /\ pc[self] = "insert"
    /\ \E t1 \in Now(clock) : \E t2 \in Now(t1) :
          LET q == CreateStamp(call[self].p, t1, t2)
          IN  /\ patients' = CreateInsert(patients, q)
              /\ clock' = t2
              /\ call' = [call EXCEPT ![self].p = q]
    /\ pc' = [pc EXCEPT ![self] = "unlock"]
    /\ UNCHANGED <<liveVars, apiVars, parseVars, formVars, aliasVars, last, created, updated, deleted, nOps, nDeletes, mutex>>

\* Update: existing, exists := r.patients[p.HN]
UpdateLookup(self) ==
    /\ pc[self] = "lookup"
    /\ IF call[self].p.HN \notin DOMAIN patients
       THEN /\ call' = [call EXCEPT ![self].err = ErrNotFound]
            /\ pc' = [pc EXCEPT ![self] = "unlock"]
       ELSE /\ pc' = [pc EXCEPT ![self] = "assign"]
            /\ UNCHANGED call
    /\ UNCHANGED <<liveVars, apiVars, parseVars, formVars, aliasVars, storeVars, mutex>>

\* Update: the next assignment to *existing; after the eighth, the caller's
\* p gets the record's timestamps
UpdateAssign(self) ==
    /\ pc[self] = "assign"
    /\ LET hn == call[self].p.HN
           i == call[self].i + 1
       IN  \E t \in IF i = 8 THEN Now(clock) ELSE {clock} :
             LET existing == IF hn \in DOMAIN patients
                             THEN UpdateAssignment(patients[hn], call[self].p, t, i)
                             ELSE call[self].p
             IN  /\ patients' = IF hn \in DOMAIN patients
                                THEN [patients EXCEPT ![hn] = existing]
                                ELSE patients
                 /\ clock' = t
                 /\ IF i = 8
                    THEN /\ call' = [call EXCEPT ![self].i = i,
                                          ![self].p = UpdateReturn(existing, call[self].p)]
                         /\ pc' = [pc EXCEPT ![self] = "unlock"]
                    ELSE /\ call' = [call EXCEPT ![self].i = i]
                         /\ UNCHANGED pc
    /\ UNCHANGED <<liveVars, apiVars, parseVars, formVars, aliasVars, last, created, updated, deleted, nOps, nDeletes, mutex>>

\* Delete: the existence check and delete(r.patients, hnString)
DeleteRemove(self) ==
    /\ pc[self] = "delete"
    /\ LET hnString == HNString(call[self].id)
       IN  IF hnString \notin DOMAIN patients
           THEN /\ call' = [call EXCEPT ![self].err = ErrNotFound]
                /\ UNCHANGED patients
           ELSE /\ patients' = DeleteKey(patients, hnString)
                /\ UNCHANGED call
    /\ pc' = [pc EXCEPT ![self] = "unlock"]
    /\ UNCHANGED <<liveVars, apiVars, parseVars, formVars, aliasVars, clock, last, created, updated, deleted, nOps, nDeletes, mutex>>

\* mutant: only the writers' lock is released (GetAll and GetByID return
\* without RUnlock)
UnlockWritersOnly(m, self) == [w |-> m.w \ {self}, r |-> m.r]

\* r.mutex.RUnlock() / r.mutex.Unlock(): the caller no longer holds the lock
Unlock(m, self) == [w |-> m.w \ {self}, r |-> m.r \ {self}]

\* defer r.mutex.RUnlock() / r.mutex.Unlock(): the call returns
Release(self) ==
    /\ pc[self] = "unlock"
    /\ mutex' = Unlock(mutex, self)
    /\ pc' = [pc EXCEPT ![self] = "returned"]
    /\ UNCHANGED <<liveVars, apiVars, parseVars, formVars, aliasVars, storeVars, call>>

NextConc ==
    \E self \in Procs :
        \* the calls the concurrent callers make
        \/ \E c \in {ConcCall("Create", 0, BodyB(h)) :
                        h \in {CanonicalHN(1), ShortHN, NextHN}}
                     \cup {ConcCall("Update", 0, BodyA(h)) :
                             h \in {CanonicalHN(1), ShortHN}}
                     \cup {ConcCall("Delete", 1, NoPatient),
                           ConcCall("GetByID", 1, NoPatient),
                           ConcCall("GetAll", 0, NoPatient)} :
              Start(self, c)
        \/ Acquire(self)
        \/ GetAllRange(self)
        \/ GetByIDGet(self)
        \/ CreateCheck(self)
        \/ CreateStore(self)
        \/ UpdateLookup(self)
        \/ UpdateAssign(self)
        \/ DeleteRemove(self)
        \/ Release(self)

SpecConc == Init /\ [][NextConc]_vars

TypeOKConc ==
    /\ mutex.w \subseteq Procs /\ mutex.r \subseteq Procs
    /\ \A self \in Procs : pc[self] \in {"idle", "lock", "returned"} \cup InsideLock

(* ---------------- SpecAPI: router, handlers, store --------------------- *)
\* a hospital number whose padded form is not seeded ("HN4")
ShortNextHN == <<"H", "N", "4">>

\* the path segments requested after /api/patients/
Segments == {CanonicalHN(1), NextHN, ShortHN, ShortNextHN, <<"x">>}

\* a request body: whether it decodes as JSON, and the Patient it decodes to
Body(valid, p) == [valid |-> valid, patient |-> p]

NoBody == Body(FALSE, NoPatient)

\* the bodies of POST and PUT requests: a body that is not JSON, and
\* patients with a seeded, a new, a short, or no hospital number
Bodies ==
    {NoBody} \cup {Body(TRUE, BodyB(h)) : h \in {CanonicalHN(1), NextHN, ShortNextHN, <<>>}}

\* mux.Vars(r) for a request matched by "/api/patients/{id}"
MuxVars(segment) == [k \in {"id"} |-> segment]

\* vars["hn"] on the map mux.Vars returns: the zero value "" when the key is missing
VarsGet(muxVars, key) == IF key \in DOMAIN muxVars THEN muxVars[key] ELSE <<>>

\* GetPatients: GET /api/patients
GetPatients ==
    /\ RepoGetAll
    /\ resp' = Exchange("GET", <<>>, NoBody,
                         IF last'.err # Ok THEN 500 ELSE 200, last'.ret)
    /\ UNCHANGED <<concVars, liveVars, parseVars, formVars, aliasVars>>

\* GetPatient: GET /api/patients/{id}
GetPatient(segment) ==
    LET hnString == VarsGet(MuxVars(segment), "hn")
        scan == ScanHN(hnString)
    IN  /\ IF scan.err
           THEN /\ resp' = Exchange("GET", segment, NoBody, 400, <<>>)
                /\ UNCHANGED storeVars
           ELSE /\ RepoGetByID(scan.id)
                /\ resp' = Exchange("GET", segment, NoBody,
                                     IF last'.err # Ok THEN 404 ELSE 200, last'.ret)
        /\ UNCHANGED <<concVars, liveVars, parseVars, formVars, aliasVars>>

\* CreatePatient: POST /api/patients
CreatePatient(body) ==
    /\ IF ~ body.valid
       THEN /\ resp' = Exchange("POST", <<>>, body, 400, <<>>)
            /\ UNCHANGED storeVars
       ELSE /\ RepoCreate(body.patient)
            /\ resp' = IF last'.err # Ok
                        THEN Exchange("POST", <<>>, body, 500, <<>>)
                        ELSE Exchange("POST", <<>>, body, 201, <<last'.p>>)
    /\ UNCHANGED <<concVars, liveVars, parseVars, formVars, aliasVars>>

\* UpdatePatient: PUT /api/patients/{id}
UpdatePatient(segment, body) ==
    LET hnString == VarsGet(MuxVars(segment), "hn")
    IN  /\ IF ~ body.valid
           THEN /\ resp' = Exchange("PUT", segment, body, 400, <<>>)
                /\ UNCHANGED storeVars
           ELSE /\ RepoUpdate([body.patient EXCEPT !.HN = hnString])
                /\ resp' = IF last'.err # Ok
                            THEN Exchange("PUT", segment, body, 500, <<>>)
                            ELSE Exchange("PUT", segment, body, 200, <<last'.p>>)
        /\ UNCHANGED <<concVars, liveVars, parseVars, formVars, aliasVars>>

\* DeletePatient: DELETE /api/patients/{id}
DeletePatient(segment) ==
    LET hnString == VarsGet(MuxVars(segment), "hn")
        scan == ScanHN(hnString)
    IN  /\ IF scan.err
           THEN /\ resp' = Exchange("DELETE", segment, NoBody, 400, <<>>)
                /\ UNCHANGED storeVars
           ELSE /\ RepoDelete(scan.id)
                /\ resp' = Exchange("DELETE", segment, NoBody,
                                     IF last'.err # Ok THEN 500 ELSE 204, <<>>)
        /\ UNCHANGED <<concVars, liveVars, parseVars, formVars, aliasVars>>

NextAPI ==
    \/ GetPatients
    \/ \E segment \in Segments : GetPatient(segment)
    \/ \E body \in Bodies : CreatePatient(body)
    \/ \E segment \in Segments : \E body \in Bodies : UpdatePatient(segment, body)
    \/ \E segment \in Segments : DeletePatient(segment)

SpecAPI == Init /\ [][NextAPI]_vars

(* ------- SpecParse: the functions on hospital numbers and ages --------- *)
RECURSIVE Filter(_, _)
\* the characters of s that are in the set keep, in order
\* (replace(/[^...]/g, ''))
Filter(s, keep) ==
    IF s = <<>> THEN <<>>
    ELSE (IF s[1] \in keep THEN <<s[1]>> ELSE <<>>) \o Filter(Tail(s), keep)

\* String.prototype.startsWith('HN')
StartsWithHN(s) == Len(s) >= 2 /\ s[1] = "H" /\ s[2] = "N"

\* String.prototype.substring(from) and substring(0, to)
Substring(s, from) == SubSeq(s, from + 1, Len(s))
\* a FieldValidation; message names the text shown
FieldValidation(isValid, message, type) ==
    [isValid |-> isValid, message |-> message, type |-> type]

\* validateHN: non-empty and matching /^HN\d{6}$/
validateHN(hn) ==
    IF hn = <<>> THEN FieldValidation(FALSE, "hn required", "error")
    ELSE IF ~ (/\ Len(hn) = 8
               /\ StartsWithHN(hn)
               /\ \A i \in 3 .. 8 : hn[i] \in Digits)
         THEN FieldValidation(FALSE, "hn format", "error")
         ELSE FieldValidation(TRUE, "hn ok", "success")

\* formatHN: upper-case, keep H, N and digits, prefix HN to a leading digit,
\* cut what follows HN after six characters
formatHN(raw) ==
    LET ToUpperCase(c) == CASE c = "h" -> "H" [] c = "n" -> "N"
                            [] c = "a" -> "A" [] OTHER -> c
        upper == [i \in 1 .. Len(raw) |-> ToUpperCase(raw[i])]
        kept == Filter(upper, {"H", "N"} \cup Digits)
        cleaned == IF kept # <<>> /\ kept[1] \in Digits
                   THEN <<"H", "N">> \o kept ELSE kept
    IN  IF StartsWithHN(cleaned)
        THEN LET numberPart == Substring(cleaned, 2)
             IN  IF Len(numberPart) > 6
                 THEN <<"H", "N">> \o SubSeq(numberPart, 1, 6)
                 ELSE <<"H", "N">> \o numberPart
        ELSE cleaned

\* addLeadingZeros: a number part of one to five characters is padded to six
addLeadingZeros(hn) ==
    IF hn = <<>> \/ ~ StartsWithHN(hn) THEN hn
    ELSE LET numberPart == Substring(hn, 2)
         IN  IF Len(numberPart) > 0 /\ Len(numberPart) < 6
             THEN <<"H", "N">> \o ZeroPad(numberPart, 6)
             ELSE hn

\* mutant: 150 is rejected too
validateAgeExclusive(age) ==
    IF age = 0 THEN FieldValidation(FALSE, "age required", "error")
    ELSE IF age < 0 THEN FieldValidation(FALSE, "age positive", "error")
    ELSE IF age >= 150 THEN FieldValidation(FALSE, "age at most 150", "error")
    ELSE IF age > 100 THEN FieldValidation(TRUE, "check age", "warning")
    ELSE FieldValidation(TRUE, "age ok", "success")

\* validateAge, on an integer (!age holds of 0 only)
validateAge(age) ==
    IF age = 0 THEN FieldValidation(FALSE, "age required", "error")
    ELSE IF age < 0 THEN FieldValidation(FALSE, "age positive", "error")
    ELSE IF age > 150 THEN FieldValidation(FALSE, "age at most 150", "error")
    ELSE IF age > 100 THEN FieldValidation(TRUE, "check age", "warning")
    ELSE FieldValidation(TRUE, "age ok", "success")

\* String.prototype.slice(from, to) with 0 <= from <= to
Slice(s, from, to) == SubSeq(s, from + 1, IF to < Len(s) THEN to ELSE Len(s))

\* mutant: only ten digits are accepted
validatePhoneTenOnly(phone) ==
    IF phone = <<>> THEN FieldValidation(TRUE, "", "warning")
    ELSE IF Len(Filter(phone, Digits)) # 10
         THEN FieldValidation(FALSE, "phone ten digits", "error")
         ELSE FieldValidation(TRUE, "phone ok", "success")

\* validatePhone: an empty phone is no phone; otherwise the digits are
\* counted and their first characters compared
validatePhone(phone) ==
    IF phone = <<>> THEN FieldValidation(TRUE, "", "warning")
    ELSE LET cleanPhone == Filter(phone, Digits)
         IN  IF Len(cleanPhone) < 9
             THEN FieldValidation(FALSE, "phone at least 9", "error")
             ELSE IF Len(cleanPhone) > 12
             THEN FieldValidation(FALSE, "phone at most 12", "error")
             ELSE IF /\ Len(cleanPhone) = 10
                     /\ Slice(cleanPhone, 0, 2) \in {<<"0", "6">>, <<"0", "8">>, <<"0", "9">>}
             THEN FieldValidation(TRUE, "mobile ok", "success")
             ELSE IF Len(cleanPhone) = 9 /\ cleanPhone[1] = "0"
             THEN FieldValidation(TRUE, "landline ok", "success")
             ELSE FieldValidation(FALSE, "phone format", "error")

\* formatPhoneNumber: the digits in groups of three, three and up to four,
\* cut after the tenth digit
formatPhoneNumber(phone) ==
    LET cleaned == Filter(phone, Digits)
    IN  IF Len(cleaned) <= 3 THEN cleaned
        ELSE IF Len(cleaned) <= 6
        THEN Slice(cleaned, 0, 3) \o <<"-">> \o Slice(cleaned, 3, Len(cleaned))
        ELSE IF Len(cleaned) <= 10
        THEN Slice(cleaned, 0, 3) \o <<"-">> \o Slice(cleaned, 3, 6)
               \o <<"-">> \o Slice(cleaned, 6, Len(cleaned))
        ELSE Slice(cleaned, 0, 3) \o <<"-">> \o Slice(cleaned, 3, 6)
               \o <<"-">> \o Slice(cleaned, 6, 10)

RECURSIVE Strings(_, _)
\* the strings of up to n characters over an alphabet
Strings(alphabet, n) ==
    IF n = 0 THEN {<<>>}
    ELSE LET shorter == Strings(alphabet, n - 1)
         IN  shorter \cup {<<c>> \o t : c \in alphabet, t \in {u \in shorter : Len(u) = n - 1}}

\* the digits 1 2 3 ... of a phone number of n digits after its first two
PhoneNumber(head, n) == head \o [i \in 1 .. n - 2 |-> DigitChar((i + 2) % 10)]

\* phone numbers of 2 .. MaxPhoneDigits digits by their first two digits,
\* and three shorter ones
PhoneNumbers ==
    {PhoneNumber(head, n) :
        head \in {<<"0", "6">>, <<"0", "8">>, <<"0", "9">>, <<"0", "2">>, <<"1", "2">>},
        n \in 2 .. MaxPhoneDigits}
      \cup {<<>>, <<"0">>, <<"a">>}

\* an input and its kind: a raw hn typed into the form or put in a path, a
\* surrogate id, an age, a phone typed into the form
Input(kind, raw) == [kind |-> kind, raw |-> raw]

InitInputs ==
    LET
        \* the six-digit strings over the digits 0, 1 and 9
        SixDigits ==
            {u \in Strings({"0", "1", "9"}, 6) : Len(u) = 6}
        \* raw hospital numbers: a prefix, then digits and letters; three with a
        \* blank or a sign before the digits; and canonical ones
        RawHNs ==
            {pre \o t : pre \in {<<"H", "N">>, <<"h", "n">>, <<"X", "N">>, <<>>},
                        t \in Strings({"0", "9", "a"}, MaxTail)}
              \cup {<<"H", "N", c, "1">> : c \in {" ", "-", "+"}}
              \cup {<<"H", "N">> \o t : t \in SixDigits}
        \* the numbers of six digits 0, 1 and 9 (within 0 .. 999999)
        SurrogateIds ==
            {100000 * d[1] + 10000 * d[2] + 1000 * d[3] + 100 * d[4] + 10 * d[5] + d[6] :
                d \in [1 .. 6 -> {0, 1, 9}]}
        \* a phone number as it is typed: bare, with hyphens after the third and
        \* the sixth digit, after a plus sign, before a letter
        TypedPhones ==
            PhoneNumbers
              \cup {Slice(d, 0, 3) \o <<"-">> \o Slice(d, 3, 6) \o <<"-">> \o Slice(d, 6, Len(d)) :
                      d \in {e \in PhoneNumbers : Len(e) > 6}}
              \cup {<<"+">> \o d : d \in PhoneNumbers}
              \cup {d \o <<"a">> : d \in PhoneNumbers}
        ParseInputs ==
            {Input("hn", r) : r \in RawHNs}
              \cup {Input("id", n) : n \in SurrogateIds}
              \cup {Input("age", a) : a \in (0 - MaxAge) .. MaxAge}
              \cup {Input("phone", r) : r \in TypedPhones}
    IN  /\ InitStore /\ InitConc /\ InitLive /\ InitAPI /\ InitForm /\ InitAlias
        /\ input \in ParseInputs
        /\ output = NoOutput

\* handleInputChange, name = 'hn': the field takes formatHN(value) and is
\* validated
HandleInputChangeHN ==
    /\ input.kind = "hn" /\ output.fn = "none"
    /\ LET formattedHN == formatHN(input.raw)
       IN  output' = [fn |-> "change", hn |-> formattedHN,
                      validation |-> validateHN(formattedHN)]
    /\ UNCHANGED <<storeVars, concVars, liveVars, apiVars, formVars, aliasVars, input>>

\* handleFieldBlur('hn'): a non-empty field takes addLeadingZeros of itself
\* and is validated again when that changed it
HandleFieldBlurHN ==
    /\ output.fn = "change"
    /\ LET paddedHN == addLeadingZeros(output.hn)
       IN  IF output.hn # <<>> /\ paddedHN # output.hn
           THEN output' = [fn |-> "blur", hn |-> paddedHN,
                           validation |-> validateHN(paddedHN)]
           ELSE output' = [output EXCEPT !.fn = "blur"]
    /\ UNCHANGED <<storeVars, concVars, liveVars, apiVars, formVars, aliasVars, input>>

\* the handlers' path parsing, and the key GetByID / Delete make of the id
ParsePath ==
    /\ input.kind = "hn" /\ output.fn = "none"
    /\ LET scan == ScanHN(input.raw)
       IN  output' = [fn |-> "scan", err |-> scan.err, id |-> scan.id,
                      hnString |-> IF scan.err THEN <<>> ELSE HNString(scan.id)]
    /\ UNCHANGED <<storeVars, concVars, liveVars, apiVars, formVars, aliasVars, input>>

\* the key of an id, read back by the handlers' scan
FormatId ==
    /\ input.kind = "id" /\ output.fn = "none"
    /\ LET hnString == HNString(input.raw)
           scan == ScanHN(hnString)
       IN  output' = [fn |-> "format", err |-> scan.err, id |-> scan.id,
                      hnString |-> hnString]
    /\ UNCHANGED <<storeVars, concVars, liveVars, apiVars, formVars, aliasVars, input>>

\* validateField('age', ageValue)
ValidateAge ==
    /\ input.kind = "age" /\ output.fn = "none"
    /\ output' = [fn |-> "age", validation |-> validateAge(input.raw)]
    /\ UNCHANGED <<storeVars, concVars, liveVars, apiVars, formVars, aliasVars, input>>

\* validatePhone and formatPhoneNumber of a phone
ValidatePhone ==
    /\ input.kind = "phone" /\ output.fn = "none"
    /\ output' = [fn |-> "phone", validation |-> validatePhone(input.raw),
                  display |-> formatPhoneNumber(input.raw)]
    /\ UNCHANGED <<storeVars, concVars, liveVars, apiVars, formVars, aliasVars, input>>

\* handleInputChange, name = 'phone': the field takes formatPhoneNumber(value)
\* and is validated
HandleInputChangePhone ==
    /\ input.kind = "phone" /\ output.fn = "none"
    /\ LET formattedPhone == formatPhoneNumber(input.raw)
       IN  output' = [fn |-> "changePhone", phone |-> formattedPhone,
                      validation |-> validatePhone(formattedPhone)]
    /\ UNCHANGED <<storeVars, concVars, liveVars, apiVars, formVars, aliasVars, input>>

NextParse ==
    \/ HandleInputChangeHN
    \/ HandleFieldBlurHN
    \/ ParsePath
    \/ FormatId
    \/ ValidateAge
    \/ ValidatePhone
    \/ HandleInputChangePhone

SpecParse == InitInputs /\ [][NextParse]_vars

(* ---- SpecLive: the constructor's seeding, then the callers, fairly ---- *)
\* the goroutine that runs NewMockPatientRepository
Ctor == 0

\* repo := &MockPatientRepository{patients: make(map[string]*Patient)}
InitNew ==
    /\ patients = <<>>
    /\ clock = ZeroTime + 1
    /\ last = NoCall
    /\ created = {}
    /\ updated = {}
    /\ deleted = {}
    /\ nOps = 0
    /\ nDeletes = 0
    /\ mutex = [w |-> {}, r |-> {}]
    /\ pc = [self \in Procs \cup {Ctor} |-> "idle"]
    /\ call = [self \in Procs \cup {Ctor} |-> NoConcCall]
    /\ seeding = 0
    /\ InitAPI /\ InitParse /\ InitForm /\ InitAlias

\* createSampleData: for _, p := range samplePatients { r.Create(p) }
SeedCreate ==
    /\ pc[Ctor] \in {"idle", "returned"}
    /\ seeding < Len(samplePatients)
    /\ seeding' = seeding + 1
    /\ pc' = [pc EXCEPT ![Ctor] = "lock"]
    /\ call' = [call EXCEPT ![Ctor] = ConcCall("Create", 0, samplePatients[seeding + 1])]
    /\ UNCHANGED <<storeVars, mutex, apiVars, parseVars, formVars, aliasVars>>

\* NewMockPatientRepository has returned repo: callers can reach the store
Constructed == seeding = Len(samplePatients) /\ pc[Ctor] = "returned"

\* the statements of a call, from the lock's acquisition to its release
Proceed(self) ==
    \/ Acquire(self)
    \/ GetAllRange(self)
    \/ GetByIDGet(self)
    \/ CreateCheck(self)
    \/ CreateStore(self)
    \/ UpdateLookup(self)
    \/ UpdateAssign(self)
    \/ DeleteRemove(self)
    \/ Release(self)

\* the seeding's Create stamps and stores its sample
SeedStore ==
    /\ CreateStore(Ctor)
    \* the two instants this Create reads are those of SeedTimes
    /\ \E ts \in SeedTimes :
          /\ call'[Ctor].p.CreatedAt = ts[2 * seeding - 1]
          /\ call'[Ctor].p.UpdatedAt = ts[2 * seeding]

\* the constructor runs Create's statements like any caller
SeedProceed ==
    \/ Acquire(Ctor)
    \/ CreateCheck(Ctor)
    \/ SeedStore
    \/ Release(Ctor)

\* a caller invokes a method of the repository the constructor returned
Invoke(self, c) == Constructed /\ Start(self, c)

NextLive ==
    \/ SeedCreate
    \/ SeedProceed
    \/ \E self \in Procs :
          \* every method once, on the first sample
          \/ \E c \in {ConcCall("Create", 0, BodyB(CanonicalHN(1))),
                       ConcCall("Update", 0, BodyA(CanonicalHN(1))),
                       ConcCall("Delete", 1, NoPatient),
                       ConcCall("GetByID", 1, NoPatient),
                       ConcCall("GetAll", 0, NoPatient)} :
                Invoke(self, c)
          \/ Proceed(self)

SpecLive ==
    /\ InitNew /\ [][NextLive]_vars
    /\ WF_vars(SeedCreate)
    /\ WF_vars(SeedProceed)
    /\ \A self \in Procs : WF_vars(Proceed(self))

(* ------------- SpecForm: the add-patient form components --------------- *)
\* The Thai honorifics and genders are written in Latin letters, one letter
\* for each Thai character: nay (Mr), nag (Mrs), nagsaw (Miss), dekchay
\* (Master); chai (male), ying (female).
Nai == <<"n", "a", "y">>
Nang == <<"n", "a", "g">>
NangSao == <<"n", "a", "g", "s", "a", "w">>
Chai == "chai"
Ying == "ying"

\* getGenderFromPrefix
getGenderFromPrefix(prefix) ==
    CASE prefix = Nai -> Chai
      [] prefix \in {Nang, NangSao} -> Ying
      [] OTHER -> ""

\* the alternatives of the pattern /^(nay|nag|nagsaw)/, in their order
PrefixPattern == <<Nai, Nang, NangSao>>

\* s.replace(/^(nay|nag|nagsaw)/, ''): the first alternative that matches
\* at the start of s is removed
ReplacePrefix(s) ==
    LET StartsWith(t, p) == Len(t) >= Len(p) /\ SubSeq(t, 1, Len(p)) = p
        matching == {i \in 1 .. Len(PrefixPattern) : StartsWith(s, PrefixPattern[i])}
    IN  IF matching = {} THEN s
        ELSE LET first == CHOOSE i \in matching : \A j \in matching : i <= j
             IN  Substring(s, Len(PrefixPattern[first]))

\* the characters that the name pattern keeps: letters, blank, full stop
NameChars ==
    {"a", "b", "c", "d", "e", "f", "g", "h", "i", "j", "k", "l", "m", "n",
     "o", "p", "q", "r", "s", "t", "u", "v", "w", "x", "y", "z", " ", "."}

RECURSIVE TrimStart(_)
TrimStart(s) == IF s # <<>> /\ s[1] = " " THEN TrimStart(Tail(s)) ELSE s

RECURSIVE TrimEnd(_)
TrimEnd(s) ==
    IF s # <<>> /\ s[Len(s)] = " " THEN TrimEnd(SubSeq(s, 1, Len(s) - 1)) ELSE s

\* String.prototype.trim
Trim(s) == TrimEnd(TrimStart(s))

RECURSIVE FirstWord(_)
\* s.split(' ')[0]
FirstWord(s) ==
    IF s = <<>> \/ s[1] = " " THEN <<>> ELSE <<s[1]>> \o FirstWord(Tail(s))

\* validateFullName
validateFullName(name) ==
    IF name = <<>> \/ Len(Trim(name)) = 0
    THEN FieldValidation(FALSE, "name required", "error")
    ELSE IF Len(Trim(name)) < 2
    THEN FieldValidation(FALSE, "name at least 2", "error")
    ELSE IF Len(Trim(name)) > 100
    THEN FieldValidation(FALSE, "name at most 100", "error")
    ELSE IF \E i \in 1 .. Len(name) : name[i] \notin NameChars
    THEN FieldValidation(FALSE, "name letters", "error")
    ELSE FieldValidation(TRUE, "name ok", "success")

\* new Date(): the day the form is used
Today == <<2025, 6, 15>>

\* validateDateOfBirth
validateDateOfBirth(date) ==
    IF date = <<>> THEN FieldValidation(TRUE, "", "warning")
    ELSE IF \/ date[1] > Today[1]
            \/ date[1] = Today[1] /\ date[2] > Today[2]
            \/ date[1] = Today[1] /\ date[2] = Today[2] /\ date[3] > Today[3]
    THEN FieldValidation(FALSE, "date in the future", "error")
    ELSE IF Today[1] - date[1] > 150
    THEN FieldValidation(FALSE, "date too old", "error")
    ELSE FieldValidation(TRUE, "date ok", "success")

\* the age in whole years that the effect computes from a date of birth
WholeYears(birthDate) ==
    LET age == Today[1] - birthDate[1]
        monthDiff == Today[2] - birthDate[2]
    IN  IF monthDiff < 0 \/ (monthDiff = 0 /\ Today[3] < birthDate[3])
        THEN age - 1 ELSE age

\* the state after a render: the effect runs when dateOfBirth has changed
Rendered(old, new) ==
    \* useEffect(..., [formData.dateOfBirth]): the age follows the date of birth
    LET AgeEffect(fd) ==
            IF fd.dateOfBirth # <<>>
            THEN LET age == WholeYears(fd.dateOfBirth)
                 IN  IF age >= 0 /\ age <= 150 /\ age # fd.age
                     THEN [fd EXCEPT !.age = age] ELSE fd
            ELSE fd
    IN  IF new.dateOfBirth # old.dateOfBirth THEN AgeEffect(new) ELSE new

\* validateField: the validation that is recorded for a field
validateField(fieldName, value) ==
    CASE fieldName = "hn" -> validateHN(value)
      [] fieldName = "fullName" -> validateFullName(value)
      [] fieldName = "phone" -> validatePhone(value)
      [] fieldName = "age" -> validateAge(value)
      [] fieldName = "dateOfBirth" -> validateDateOfBirth(value)
      [] OTHER -> FieldValidation(TRUE, "", "success")

\* parseInt(value) || 0 of the value of a number input
ParseIntOrZero(value) == IF value = <<>> THEN 0 ELSE ParseInt(value)

\* value.replace(/[^...a-zA-Z\s\.]/g, '')
CleanName(value) == Filter(value, NameChars)

\* formData after handleInputChange of the first component
ChangeFirst(fd, name, value) ==
    CASE name = "titlePrefix" ->
            [fd EXCEPT !.titlePrefix = value,
                       !.gender = getGenderFromPrefix(value),
                       !.fullName = IF value # <<>>
                                    THEN value \o ReplacePrefix(fd.fullName)
                                    ELSE ReplacePrefix(fd.fullName)]
      [] name = "phone" -> [fd EXCEPT !.phone = formatPhoneNumber(value)]
      [] name = "hn" -> [fd EXCEPT !.hn = formatHN(value)]
      [] name = "fullName" ->
            [fd EXCEPT !.fullName = IF fd.titlePrefix # <<>>
                                    THEN fd.titlePrefix \o CleanName(value)
                                    ELSE CleanName(value)]
      [] name = "age" ->
            LET ageValue == ParseIntOrZero(value)
            IN  IF ageValue > 0 /\ ageValue <= 150 /\ fd.dateOfBirth = <<>>
                THEN [fd EXCEPT !.age = ageValue,
                                !.dateOfBirth = <<Today[1] - ageValue, 1, 1>>]
                ELSE [fd EXCEPT !.age = ageValue]
      [] name = "dateOfBirth" -> [fd EXCEPT !.dateOfBirth = value]
      [] OTHER -> [fd EXCEPT ![name] = value]

\* fieldValidations after handleInputChange of the first component
ValidateFirst(fv, name, value) ==
    CASE name = "titlePrefix" ->
            IF getGenderFromPrefix(value) # ""
            THEN [fv EXCEPT !["gender"] = validateField("gender", getGenderFromPrefix(value))]
            ELSE fv
      [] name = "phone" -> [fv EXCEPT ![name] = validateField(name, formatPhoneNumber(value))]
      [] name = "hn" -> [fv EXCEPT ![name] = validateField(name, formatHN(value))]
      [] name = "fullName" -> [fv EXCEPT ![name] = validateField(name, CleanName(value))]
      [] name = "age" -> [fv EXCEPT ![name] = validateField(name, ParseIntOrZero(value))]
      [] OTHER -> [fv EXCEPT ![name] = validateField(name, value)]

\* validateHN of the second component
validateHN2(hn) ==
    IF hn = <<>> THEN FieldValidation(FALSE, "hn required", "error")
    ELSE IF Len(Filter(hn, Digits)) < 1
    THEN FieldValidation(FALSE, "hn at least 1", "error")
    ELSE IF Len(Filter(hn, Digits)) > 6
    THEN FieldValidation(FALSE, "hn at most 6", "error")
    ELSE FieldValidation(TRUE, "hn ok", "success")

\* validatePhone of the second component
validatePhone2(phone) ==
    IF phone = <<>> THEN FieldValidation(FALSE, "phone required", "error")
    ELSE IF Len(Filter(phone, Digits)) # 10
    THEN FieldValidation(FALSE, "phone ten digits", "error")
    ELSE FieldValidation(TRUE, "phone ok", "success")

\* the processedValue of handleInputChange of the second component
\* (this component keeps the age as the text typed, a JavaScript string; the
\* state holds the number the text denotes, which is all the number input
\* compares with min and max)
ProcessedValue(name, value) ==
    CASE name = "hn" -> Slice(Filter(value, Digits), 0, 6)
      [] name = "phone" ->
            LET digits == Filter(value, Digits)
            IN  IF Len(digits) <= 10
                THEN IF Len(digits) = 10
                     THEN Slice(digits, 0, 3) \o <<"-">> \o Slice(digits, 3, 6)
                            \o <<"-">> \o Slice(digits, 6, 10)
                     ELSE digits
                ELSE value
      [] name = "age" -> ParseIntOrZero(value)
      [] OTHER -> value

\* formData after handleInputChange of the second component
ChangeSecond(fd, name, value) ==
    LET auto == IF name = "titlePrefix" /\ getGenderFromPrefix(value) # ""
                THEN [fd EXCEPT !.gender = getGenderFromPrefix(value)]
                ELSE fd
    IN  [auto EXCEPT ![name] = ProcessedValue(name, value)]

\* fieldValidations after handleInputChange of the second component
ValidateSecond(fv, name, value) ==
    CASE name = "hn" -> [fv EXCEPT ![name] = validateHN2(ProcessedValue(name, value))]
      [] name = "phone" -> [fv EXCEPT ![name] = validatePhone2(ProcessedValue(name, value))]
      [] OTHER -> fv

\* the name som, typed with and without a digit
Som == <<"s", "o", "m">>
\* the files offered to the photo input: an image, an image of one byte
\* more than 2 MiB, an image of exactly 2 MiB, a text file
MaxPhotoSize == 2 * 1024 * 1024
File(name, size, type) == [name |-> name, size |-> size, type |-> type]
Files ==
    {File("a", 1024, "image"),
     File("big", MaxPhotoSize + 1, "image"), File("full", MaxPhotoSize, "image"),
     File("text", 1024, "text")}

\* the values that a change event of a control can carry
TypedValues(c, name) ==
    CASE name = "titlePrefix" ->
            IF c = "first" THEN {<<>>, Nai, Nang, NangSao}
            ELSE {<<>>, Nai, Nang, NangSao, <<"d", "e", "k", "c", "h", "a", "y">>}
      [] name = "gender" -> {"", Chai, Ying}
      [] name = "hn" -> {<<>>, <<"1">>}
      [] name = "fullName" -> {<<>>, Som, Som \o <<"1">>}
      [] name = "nickname" -> {<<"x">>}
      [] name = "phone" ->
            {<<"1", "2", "3">>, PhoneNumber(<<"0", "8">>, 10),
             PhoneNumber(<<"0", "8">>, 11)}
      [] name = "age" -> {<<"3">>, <<"3", "0">>, <<"1", "5", "1">>}
      [] name = "dateOfBirth" ->
            {<<Today[1] - 30, 6, 16>>, <<Today[1] + 1, 1, 1>>}

\* a control takes events unless it is disabled: the gender select of the
\* first component is disabled while an honorific is selected
ControlEnabled(name) ==
    ~ (component = "first" /\ name = "gender" /\ formData.titlePrefix # <<>>)

\* the variables of the other specifications
offForm == <<storeVars, concVars, liveVars, apiVars, parseVars, aliasVars>>

\* Every handler of a user event takes the number of events, max, that a
\* run may hold.
\* handleInputChange of both components, and the effect of the first
HandleInputChange(max, name, value) ==
    /\ nEvents < max
    /\ ControlEnabled(name)
    /\ IF component = "first"
       THEN /\ formData' = Rendered(formData, ChangeFirst(formData, name, value))
            /\ fieldValidations' = ValidateFirst(fieldValidations, name, value)
            /\ touchedFields' = touchedFields \cup {name}
       ELSE /\ formData' = ChangeSecond(formData, name, value)
            /\ fieldValidations' = ValidateSecond(fieldValidations, name, value)
            /\ UNCHANGED touchedFields
    /\ supplied' =
         CASE name = "gender" /\ formData.titlePrefix = <<>> ->
                [supplied EXCEPT !.gender = value]
           [] name = "fullName" ->
                [supplied EXCEPT !.fullName = IF component = "first"
                                              THEN CleanName(value) ELSE value]
           [] OTHER -> supplied
    /\ nEvents' = nEvents + 1
    /\ UNCHANGED <<component, isSubmitting, error, success, photoPreview,
                   readers, posted, removed>>
    /\ UNCHANGED offForm

\* handleFieldBlur: the first component pads the hn and suggests a nickname
HandleFieldBlur(max, fieldName) ==
    /\ nEvents < max
    /\ ControlEnabled(fieldName)
    /\ touchedFields' = touchedFields \cup {fieldName}
    /\ IF component = "first" /\ fieldName = "hn" /\ formData.hn # <<>>
            /\ addLeadingZeros(formData.hn) # formData.hn
       THEN /\ formData' = [formData EXCEPT !.hn = addLeadingZeros(formData.hn)]
            /\ fieldValidations' =
                 [fieldValidations EXCEPT
                    !["hn"] = validateField("hn", addLeadingZeros(formData.hn))]
       ELSE IF component = "first" /\ fieldName = "fullName"
                 /\ formData.fullName # <<>>
                 /\ FirstWord(Trim(ReplacePrefix(formData.fullName))) # <<>>
                 /\ formData.nickname = <<>>
       THEN /\ formData' =
                 [formData EXCEPT
                    !.nickname = FirstWord(Trim(ReplacePrefix(formData.fullName)))]
            /\ UNCHANGED fieldValidations
       ELSE UNCHANGED <<formData, fieldValidations>>
    /\ nEvents' = nEvents + 1
    /\ UNCHANGED <<component, isSubmitting, error, success, photoPreview,
                   readers, posted, supplied, removed>>
    /\ UNCHANGED offForm

\* handlePhotoUpload: a file of more than 2 MiB, or (first component) one
\* that is no image, sets the error; any other file is handed to a FileReader
HandlePhotoUpload(max, file) ==
    /\ nEvents < max
    /\ IF file.size > MaxPhotoSize
       THEN error' = "photo size" /\ UNCHANGED readers
       ELSE IF component = "first" /\ file.type # "image"
       THEN error' = "photo type" /\ UNCHANGED readers
       ELSE readers' = readers \cup {file} /\ UNCHANGED error
    /\ removed' = FALSE
    /\ nEvents' = nEvents + 1
    /\ UNCHANGED <<component, formData, isSubmitting, success, photoPreview,
                   fieldValidations, touchedFields, posted, supplied>>
    /\ UNCHANGED offForm

\* reader.onload: the file read becomes the photo and its preview
ReaderOnload(file) ==
    /\ file \in readers
    /\ readers' = readers \ {file}
    /\ formData' = [formData EXCEPT !.photo = file.name]
    /\ photoPreview' = file.name
    /\ IF component = "first" THEN error' = "" ELSE UNCHANGED error
    /\ UNCHANGED <<component, isSubmitting, success, fieldValidations,
                   touchedFields, posted, supplied, removed, nEvents>>
    /\ UNCHANGED offForm

\* removePhoto, by the button that is shown on the preview
RemovePhoto(max) ==
    /\ nEvents < max
    /\ photoPreview # ""
    /\ formData' = [formData EXCEPT !.photo = ""]
    /\ photoPreview' = ""
    /\ removed' = TRUE
    /\ nEvents' = nEvents + 1
    /\ UNCHANGED <<component, isSubmitting, error, success, fieldValidations,
                   touchedFields, readers, posted, supplied>>
    /\ UNCHANGED offForm

\* the validationResults of handleSubmit of the first component
ValidationResults(fd) ==
    [hn |-> validateHN(fd.hn),
     fullName |-> validateFullName(ReplacePrefix(fd.fullName)),
     phone |-> validatePhone(fd.phone),
     age |-> validateAge(fd.age),
     dateOfBirth |-> validateDateOfBirth(fd.dateOfBirth)]

\* the body that handleSubmit posts
SubmitData(c, fd) ==
    IF c = "first"
    THEN [fd EXCEPT !.fullName = IF fd.titlePrefix # <<>>
                                 THEN fd.titlePrefix \o ReplacePrefix(fd.fullName)
                                 ELSE fd.fullName,
                    !.phone = Filter(fd.phone, Digits)]
    ELSE [fd EXCEPT !.hn = IF fd.hn = <<>> THEN <<>>
                           ELSE ZeroPad(Filter(fd.hn, Digits), 6)]

\* the browser submits the form when the submit button is enabled and the
\* required controls that are not disabled have a value, the age within
\* min and max
CanSubmit ==
    /\ ~ isSubmitting
    /\ formData.titlePrefix # <<>>
    /\ formData.age >= 1 /\ formData.age <= 150
    /\ IF component = "first"
       THEN /\ \A f \in Fields : fieldValidations[f].isValid
            /\ ReplacePrefix(formData.fullName) # <<>>
       ELSE /\ formData.hn # <<>>
            /\ formData.gender # ""
            /\ formData.fullName # <<>>
            /\ formData.phone # <<>>

\* handleSubmit up to its await: the first component validates and returns
\* on an error; otherwise the body is posted
HandleSubmit(max) ==
    /\ nEvents < max
    /\ CanSubmit
    /\ IF /\ component = "first"
          /\ \E f \in DOMAIN ValidationResults(formData) :
                ~ ValidationResults(formData)[f].isValid
       THEN /\ error' = "fix the invalid fields"
            /\ isSubmitting' = FALSE
            /\ touchedFields' = touchedFields \cup
                  {"hn", "titlePrefix", "fullName", "gender", "phone",
                   "age", "dateOfBirth"}
            /\ success' = FALSE
            /\ UNCHANGED posted
       ELSE /\ error' = ""
            /\ isSubmitting' = TRUE
            /\ success' = IF component = "first" THEN FALSE ELSE success
            /\ posted' = Append(posted, SubmitData(component, formData))
            /\ UNCHANGED touchedFields
    /\ nEvents' = nEvents + 1
    /\ UNCHANGED <<component, formData, photoPreview, fieldValidations,
                   readers, supplied, removed>>
    /\ UNCHANGED offForm

\* handleSubmit after its await: the form is reset when the response is ok,
\* the error is set otherwise
HandleResponse(ok) ==
    /\ isSubmitting
    /\ IF ok
       THEN /\ formData' = EmptyFormData
            /\ photoPreview' = ""
            /\ fieldValidations' = [f \in Fields |-> NoValidation]
            /\ touchedFields' = {}
            /\ success' = TRUE
            /\ supplied' = NothingSupplied
            /\ UNCHANGED error
       ELSE /\ error' = "failed to create patient"
            /\ UNCHANGED <<formData, photoPreview, fieldValidations,
                           touchedFields, success, supplied>>
    /\ isSubmitting' = FALSE
    /\ UNCHANGED <<component, readers, posted, removed, nEvents>>
    /\ UNCHANGED offForm

\* setTimeout(() => setSuccess(false), 3000)
SuccessTimeout ==
    /\ success
    /\ success' = FALSE
    /\ UNCHANGED <<component, formData, isSubmitting, error, photoPreview,
                   fieldValidations, touchedFields, readers, posted, supplied,
                   removed, nEvents>>
    /\ UNCHANGED offForm

\* SpecForm: up to MaxEvents events of any control and of the photo input
NextForm ==
    \/ \E name \in Fields : \E value \in TypedValues(component, name) :
           HandleInputChange(MaxEvents, name, value)
    \/ \E fieldName \in {"hn", "fullName", "age"} : HandleFieldBlur(MaxEvents, fieldName)
    \/ \E file \in Files : HandlePhotoUpload(MaxEvents, file)
    \/ \E file \in Files : ReaderOnload(file)
    \/ RemovePhoto(MaxEvents)
    \/ HandleSubmit(MaxEvents)

\* either component is mounted
InitMount ==
    /\ InitStore /\ InitConc /\ InitLive /\ InitAPI /\ InitParse /\ InitAlias
    /\ \E c \in {"first", "second"} : MountForm(c)

SpecForm == InitMount /\ [][NextForm]_vars

\* the values of one record as they are typed, with two honorifics and a
\* phone of three digits
RecordValues(name) ==
    CASE name = "hn" -> {<<"0", "0", "0", "0", "0", "1">>}
      [] name = "titlePrefix" -> {Nai, NangSao}
      [] name = "fullName" -> {Som}
      [] name = "age" -> {<<"3", "0">>}
      [] name = "phone" -> {<<"1", "2", "3">>, PhoneNumber(<<"0", "8">>, 10)}
      [] OTHER -> {}

\* SpecSubmit: up to MaxFill events that fill in a record and submit it,
\* and the responses to the requests
NextSubmit ==
    \/ \E name \in Fields : \E value \in RecordValues(name) :
           HandleInputChange(MaxFill, name, value)
    \/ HandleSubmit(MaxFill)
    \/ \E ok \in BOOLEAN : HandleResponse(ok)
    \/ SuccessTimeout

SpecSubmit == InitMount /\ [][NextSubmit]_vars

(* ------- SpecAlias: the store and the pointers of its callers ---------- *)
\* The *string fields of a Patient hold addresses of cells of the heap; the
\* variable patients stays the content of the stored records, each *string
\* field read through its pointer.

\* a Patient struct whose optional fields point to fresh cells (a decoded
\* request body, stringPtr(...) of a sample)
Alloc(h, p) ==
    LET order == <<"Nickname", "Phone", "DateOfBirth", "Photo">>
        set == SelectSeq(order, LAMBDA f : p[f] # Nil)
        at(f) == Len(h) + CHOOSE i \in 1 .. Len(set) : set[i] = f
    IN  [heap |-> h \o [i \in 1 .. Len(set) |-> p[set[i]]],
         s |-> [f \in DOMAIN p |->
                  IF f \notin PointerFields THEN p[f]
                  ELSE IF p[f] = Nil THEN NilPtr ELSE at(f)]]

\* the addresses in the *string fields of a struct
PtrsOf(s) == [f \in PointerFields |-> s[f]]

\* a struct as its reader sees it: *string fields read through the pointer
Deref(h, s) ==
    [f \in DOMAIN s |->
       IF f \notin PointerFields THEN s[f]
       ELSE IF s[f] = NilPtr THEN Nil ELSE h[s[f]]]

\* the stored records read through their pointers
StoredView(h, pt, m) ==
    [k \in DOMAIN m |-> Deref(h, [f \in DOMAIN m[k] |->
                                    IF f \in PointerFields THEN pt[k][f]
                                    ELSE m[k][f]])]

\* a shallow copy of the stored record under key k (patientCopy := *patient,
\* append(patients, *p)): values copied, pointers shared
ShallowCopy(pt, q) ==
    [f \in DOMAIN q |-> IF f \in PointerFields THEN pt[q.HN][f] ELSE q[f]]

\* createSampleData: the samples' *string fields are stringPtr(...) cells
RECURSIVE SeedHeap(_)
SeedHeap(n) ==
    IF n = 0 THEN [heap |-> <<>>, ptrs |-> <<>>]
    ELSE LET sd == SeedHeap(n - 1)
             p == samplePatients[n]
             a == Alloc(sd.heap, p)
         IN  IF p.HN \in DOMAIN sd.ptrs THEN sd
             ELSE [heap |-> a.heap,
                   ptrs |-> [k \in DOMAIN sd.ptrs \cup {p.HN} |->
                               IF k = p.HN THEN PtrsOf(a.s) ELSE sd.ptrs[k]]]

\* the value a caller writes
Edited == "edited"

offAlias == <<concVars, liveVars, apiVars, parseVars, formVars>>

\* the caller decodes a request body into a Patient of its own
NewPatient(p) ==
    /\ nSteps < MaxSteps
    /\ nSteps' = nSteps + 1
    /\ LET a == Alloc(heap, p)
       IN  heap' = a.heap /\ held' = a.s
    /\ UNCHANGED <<storeVars, ptrs, offAlias>>

\* the caller's struct after Create / Update stamped it through the pointer p
Stamped(s, q) == [s EXCEPT !.CreatedAt = q.CreatedAt, !.UpdatedAt = q.UpdatedAt]

\* Create(&held): patientCopy := *p keeps the pointers of p
AliasCreate ==
    /\ nSteps < MaxSteps
    /\ nSteps' = nSteps + 1
    /\ held # NoHeld
    /\ RepoCreate(Deref(heap, held))
    /\ held' = Stamped(held, last'.p)
    /\ ptrs' = IF last'.err # Ok THEN ptrs
               ELSE [k \in DOMAIN ptrs \cup {held.HN} |->
                       IF k = held.HN THEN PtrsOf(held) ELSE ptrs[k]]
    /\ UNCHANGED <<heap, offAlias>>

\* Update(&held): existing.Nickname = p.Nickname, ... copy the pointers of p
AliasUpdate ==
    /\ nSteps < MaxSteps
    /\ nSteps' = nSteps + 1
    /\ held # NoHeld
    /\ RepoUpdate(Deref(heap, held))
    /\ held' = Stamped(held, last'.p)
    /\ ptrs' = IF last'.err # Ok THEN ptrs
               ELSE [ptrs EXCEPT ![held.HN] = PtrsOf(held)]
    /\ UNCHANGED <<heap, offAlias>>

\* Delete(id)
AliasDelete(id) ==
    /\ nSteps < MaxSteps
    /\ nSteps' = nSteps + 1
    /\ RepoDelete(id)
    /\ ptrs' = [k \in DOMAIN patients' |-> ptrs[k]]
    /\ UNCHANGED <<heap, held, offAlias>>

\* GetByID(id): the caller keeps the copy it is handed
AliasGetByID(id) ==
    /\ nSteps < MaxSteps
    /\ nSteps' = nSteps + 1
    /\ RepoGetByID(id)
    /\ held' = IF last'.err # Ok THEN held
               ELSE ShallowCopy(ptrs, last'.ret[1])
    /\ UNCHANGED <<heap, ptrs, offAlias>>

\* GetAll: the caller keeps one element of the slice it is handed
AliasGetAll ==
    /\ nSteps < MaxSteps
    /\ nSteps' = nSteps + 1
    /\ RepoGetAll
    /\ \E i \in 1 .. Len(last'.ret) : held' = ShallowCopy(ptrs, last'.ret[i])
    /\ UNCHANGED <<heap, ptrs, offAlias>>

\* held.FullName = "edited": a field of the caller's own struct
AssignField ==
    /\ held # NoHeld
    /\ nSteps < MaxSteps
    /\ nSteps' = nSteps + 1
    /\ held' = [held EXCEPT !.FullName = Edited]
    /\ UNCHANGED <<storeVars, heap, ptrs, offAlias>>

\* *held.Phone = "edited": the string behind an optional field; every struct
\* that holds the same address reads the new string
WriteThrough(f) ==
    /\ held # NoHeld
    /\ held[f] # NilPtr
    /\ nSteps < MaxSteps
    /\ nSteps' = nSteps + 1
    /\ heap' = [heap EXCEPT ![held[f]] = Edited]
    /\ patients' = StoredView(heap', ptrs, patients)
    /\ UNCHANGED <<clock, last, created, updated, deleted, nOps, nDeletes>>
    /\ UNCHANGED <<ptrs, held, offAlias>>

NextAlias ==
    \/ \E p \in {BodyB(CanonicalHN(1)), BodyB(ShortHN), BodyA(CanonicalHN(1))} :
          NewPatient(p)
    \/ AliasCreate
    \/ AliasUpdate
    \/ \E id \in Ids : AliasDelete(id)
    \/ \E id \in Ids : AliasGetByID(id)
    \/ AliasGetAll
    \/ AssignField
    \/ \E f \in PointerFields : WriteThrough(f)

InitSeeded ==
    /\ InitStore /\ InitConc /\ InitLive /\ InitAPI /\ InitParse /\ InitForm
    /\ heap = SeedHeap(3).heap
    /\ ptrs = SeedHeap(3).ptrs
    /\ held = NoHeld
    /\ nSteps = 0

SpecAlias == InitSeeded /\ [][NextAlias]_vars

(* ------------------------ properties of the store ---------------------- *)
\* the step is a Create / Update / Delete call (successful or not)
IsCreate == nOps' # nOps /\ last'.op = "Create"
IsUpdate == nOps' # nOps /\ last'.op = "Update"
IsDelete == nDeletes' # nDeletes

\* some record of the slice has the given HN
Lists(list, hn) == \E i \in 1 .. Len(list) : list[i].HN = hn

\* C1: in every reachable state no two live records have the same hn, and
\* each record is stored under the key equal to its own HN field.
C1_UniqueHN ==
    /\ \A k \in DOMAIN patients : patients[k].HN = k
    /\ \A k1, k2 \in DOMAIN patients :
          patients[k1].HN = patients[k2].HN => k1 = k2

\* C1 witness: records were created, updated and deleted and several are live
C1_Witness ==
    /\ last.op = "Update" /\ last.err = Ok
    /\ nOps > 1 /\ nDeletes > 0
    /\ ShortHN \in DOMAIN patients
    /\ Cardinality(DOMAIN patients) >= 3

\* C2: a Create whose hn is already in the store returns the already-exists
\* error and leaves the store exactly as it was (records, fields, timestamps).
C2_CreateDuplicate ==
    [][(IsCreate /\ last'.p.HN \in DOMAIN patients)
          => (last'.err = ErrExists /\ patients' = patients)]_vars

\* C2 witness: a Create of a live hn has returned
C2_Witness ==
    /\ last.op = "Create" /\ last.err = ErrExists
    /\ last.p.HN \in DOMAIN patients

\* what a get addressed at hn returns: the result of GetByID for an id that
\* formats to hn
GetAddressed(hn, r) ==
    \E id \in Ids :
        LET res == GetByIDResult(patients, id)
        IN  /\ res.err = Ok
            /\ res.ret[1].HN = hn
            /\ SameButTimes(res.ret[1], r)

\* C4 as stated: after a successful Create(r), as long as no Delete of r.hn
\* intervenes, get at r.hn returns r up to the timestamps and list has it.
C4_Original ==
    \A r \in created :
        /\ GetAddressed(r.HN, r)
        /\ \A list \in GetAllResults(patients, DOMAIN patients) : Lists(list, r.HN)

\* C4 amended: after a successful Create(r) whose hn is the "HN%06d" form of
\* an id, as long as neither a Delete nor an Update of that hn intervenes,
\* GetByID(id) returns a record equal to r except for the timestamps; and
\* GetAll includes a record with r's hn as long as no Delete intervenes.
C4_CreateThenGet ==
    \A r \in created :
        /\ \A id \in Ids :
              (r.HN = CanonicalHN(id) /\ r.HN \notin updated) =>
                  LET res == GetByIDResult(patients, id)
                  IN  /\ res.err = Ok
                      /\ res.ret[1].HN = r.HN
                      /\ SameButTimes(res.ret[1], r)
        /\ \A list \in GetAllResults(patients, DOMAIN patients) : Lists(list, r.HN)

\* C4 witness: GetByID returned a record that a Create call inserted
C4_Witness ==
    /\ last.op = "GetByID" /\ last.err = Ok
    /\ nOps > 0
    /\ BodyB(CanonicalHN(last.id)) \in created
    /\ CanonicalHN(last.id) \notin updated
    /\ SameButTimes(last.ret[1], BodyB(CanonicalHN(last.id)))

\* C5: after a successful Delete of hn, and until a Create of hn succeeds,
\* GetByID of it returns not-found and GetAll has no record with that hn;
\* the Delete leaves every other record unchanged.
C5_DeleteThenGet ==
    /\ [](\A id \in Ids :
            CanonicalHN(id) \in deleted =>
                /\ GetByIDResult(patients, id).err = ErrNotFound
                /\ \A list \in GetAllResults(patients, DOMAIN patients) :
                      ~ Lists(list, CanonicalHN(id)))
    /\ [][(IsDelete /\ last'.err = Ok) =>
            /\ DOMAIN patients' = DOMAIN patients \ {CanonicalHN(last'.id)}
            /\ \A k \in DOMAIN patients' : patients'[k] = patients[k]]_vars

\* C5 witness: GetByID of a deleted hn has returned not-found
C5_Witness ==
    /\ last.op = "GetByID" /\ last.err = ErrNotFound
    /\ CanonicalHN(last.id) \in deleted
    /\ patients # <<>>

\* C6: for every live record createdAt never changes, updatedAt never
\* decreases, a successful Update sets updatedAt to the clock value it read,
\* and updatedAt >= createdAt holds always.
C6_Timestamps ==
    /\ [](\A k \in DOMAIN patients : patients[k].UpdatedAt >= patients[k].CreatedAt)
    /\ [][/\ \A k \in DOMAIN patients \cap DOMAIN patients' :
                /\ patients'[k].CreatedAt = patients[k].CreatedAt
                /\ patients'[k].UpdatedAt >= patients[k].UpdatedAt
          /\ (IsUpdate /\ last'.err = Ok) =>
                /\ patients'[last'.p.HN].UpdatedAt = clock'
                /\ clock' >= clock]_vars

\* C6 witness: an Update has moved updatedAt past createdAt
C6_Witness ==
    /\ last.op = "Update" /\ last.err = Ok
    /\ patients[last.p.HN].UpdatedAt > patients[last.p.HN].CreatedAt
    /\ patients[last.p.HN].UpdatedAt = clock

\* C7 as stated: right after a successful Create the stored record's
\* createdAt and updatedAt are the same instant.
C7_SameInstant ==
    (last.op = "Create" /\ last.err = Ok) =>
        patients[last.p.HN].CreatedAt = patients[last.p.HN].UpdatedAt

\* C8: a successful Update replaces every mutable field of the addressed
\* record by the patch's value, keeps its hn and createdAt, and leaves every
\* other record unchanged.
C8_UpdateFrame ==
    [][(IsUpdate /\ last'.err = Ok) =>
          LET h == last'.p.HN
          IN  /\ DOMAIN patients' = DOMAIN patients
              /\ \A f \in MutableFields : patients'[h][f] = last'.p[f]
              /\ patients'[h].HN = patients[h].HN
              /\ patients'[h].CreatedAt = patients[h].CreatedAt
              /\ \A k \in DOMAIN patients \ {h} : patients'[k] = patients[k]]_vars

\* C8 witness: an Update has replaced the fields of a seeded record
C8_Witness ==
    /\ last.op = "Update" /\ last.err = Ok
    /\ last.p.HN = CanonicalHN(1)
    /\ SameButTimes(patients[CanonicalHN(1)], BodyA(CanonicalHN(1)))
    /\ Cardinality(DOMAIN patients) >= 2

\* C9: GetAll never fails and returns exactly the live records, each once,
\* createdAt descending over every adjacent pair; it returns the empty
\* sequence when the store holds no record.
C9_GetAll ==
    last.op = "GetAll" =>
        /\ last.err = Ok
        /\ Len(last.ret) = Cardinality(DOMAIN patients)
        /\ {last.ret[i] : i \in 1 .. Len(last.ret)} = {patients[k] : k \in DOMAIN patients}
        /\ \A i \in 1 .. Len(last.ret) - 1 :
              last.ret[i].CreatedAt >= last.ret[i + 1].CreatedAt
        /\ (DOMAIN patients = {} => last.ret = <<>>)

\* C9 witness: GetAll returned records of different and of equal createdAt
C9_Witness ==
    /\ last.op = "GetAll"
    /\ Len(last.ret) >= 3
    /\ last.ret[1].CreatedAt > last.ret[Len(last.ret)].CreatedAt
    /\ \E i \in 1 .. Len(last.ret) - 1 : last.ret[i].CreatedAt = last.ret[i + 1].CreatedAt

\* GetAll has returned the empty slice for the emptied store
C9_EmptyReached == last.op = "GetAll" /\ patients = <<>> /\ last.ret = <<>>

(* -------------------- properties of concurrent calls ------------------- *)
\* the keys present when the concurrent calls begin
SeedHNs == {samplePatients[n].HN : n \in 1 .. 3}

\* the returned Create calls that carry hn
ReturnedCreates(hn) ==
    {p \in Procs : /\ call[p].op = "Create"
                   /\ call[p].p.HN = hn
                   /\ pc[p] = "returned"}

\* callers inside a critical section, by the kind of their call
WritersInside ==
    {p \in Procs : call[p].op \in {"Create", "Update", "Delete"} /\ pc[p] \in InsideLock}
ReadersInside ==
    {p \in Procs : call[p].op \in {"GetAll", "GetByID"} /\ pc[p] \in InsideLock}

\* C3: in any interleaving of concurrent Create calls (no Delete running
\* beside them), the calls carrying an hn that was not present before them
\* have exactly one success per hn and the already-exists error for every
\* other call with that hn, so calls with pairwise distinct hn all succeed;
\* and every GetAll begun after a successful Create returned contains its hn.
C3_ConcurrentCreate ==
    (\A p \in Procs : call[p].op # "Delete") =>
        \A h \in {call[p].p.HN : p \in Procs} \ SeedHNs :
            LET S == ReturnedCreates(h)
                ok == {p \in S : call[p].err = Ok}
            IN  S # {} =>
                  /\ Cardinality(ok) = 1
                  /\ \A p \in S \ ok : call[p].err = ErrExists
                  /\ \A q \in Procs :
                        (/\ call[q].op = "GetAll"
                         /\ pc[q] \in {"unlock", "returned"}
                         /\ ok \cap call[q].after # {}) => Lists(call[q].ret, h)

\* C3: once such a Create has returned with success, a GetAll that ran now
\* would list its hn, whatever order the map is iterated in
C3_EveryGetAll ==
    (\A p \in Procs : call[p].op # "Delete") =>
        \A h \in {call[p].p.HN : p \in Procs} \ SeedHNs :
            (\E p \in ReturnedCreates(h) : call[p].err = Ok) =>
                \A list \in GetAllResults(patients, DOMAIN patients) : Lists(list, h)

\* C3 witness: two overlapping Create calls of one new hn have returned, one
\* with success and one with the already-exists error
C3_Witness ==
    \E p, q \in Procs :
        /\ p # q
        /\ p \in ReturnedCreates(ShortHN) /\ q \in ReturnedCreates(ShortHN)
        /\ call[p].err = Ok /\ call[q].err = ErrExists
        /\ p \notin call[q].after

\* a GetAll begun after a successful Create returned lists the new record
C3_SubsequentGetAll ==
    \E p, q \in Procs :
        /\ p \in ReturnedCreates(NextHN) /\ call[p].err = Ok
        /\ call[q].op = "GetAll" /\ pc[q] = "returned" /\ p \in call[q].after
        /\ Lists(call[q].ret, NextHN)

\* C10: every write appears atomic: no read copies a record on which only
\* some of an Update's assignments have been applied, no two writers are in
\* their critical sections together, and no reader is in its critical
\* section together with a writer.
C10_Atomic ==
    /\ \A p \in Procs : ~ call[p].torn
    /\ Cardinality(WritersInside) <= 1
    /\ WritersInside # {} => ReadersInside = {}

\* C10 witness: a GetByID that overlapped an Update of the record has
\* returned the record with all of the Update's assignments applied
C10_Witness ==
    \E r, w \in Procs :
        /\ call[r].op = "GetByID" /\ pc[r] = "returned" /\ call[r].err = Ok
        /\ call[w].op = "Update" /\ pc[w] = "returned" /\ call[w].err = Ok
        /\ w \notin call[r].after /\ r \notin call[w].after
        /\ call[r].ret[1] = patients[CanonicalHN(1)]
        /\ SameButTimes(call[r].ret[1], BodyA(CanonicalHN(1)))

\* two readers are inside their critical sections together
C10_ReadersOverlap == Cardinality(ReadersInside) >= 2

(* ------------------------- properties of progress ---------------------- *)
\* the caller holds neither the read nor the write lock
HoldsNoLock(self) == self \notin mutex.w \cup mutex.r

\* C11: under fair scheduling every started GetAll, GetByID, Create, Update
\* or Delete call eventually returns and has released the lock, on the
\* success and the error paths alike, and so do the three Create calls of
\* the constructor's seeding, after which the constructor itself returns.
C11_Returns ==
    /\ \A self \in Procs \cup {Ctor} :
          (pc[self] = "lock") ~> (pc[self] = "returned" /\ HoldsNoLock(self))
    /\ <>(Constructed /\ HoldsNoLock(Ctor) /\ DOMAIN patients = SeedHNs)

\* C11 witness: after the seeding, a Create that failed and an Update that
\* succeeded, which contended for the lock, have both returned and the lock
\* is free
C11_Witness ==
    /\ Constructed
    /\ mutex = [w |-> {}, r |-> {}]
    /\ \E p, q \in Procs :
          /\ pc[p] = "returned" /\ call[p].op = "Create" /\ call[p].err = ErrExists
          /\ pc[q] = "returned" /\ call[q].op = "Update" /\ call[q].err = Ok
          /\ p \notin call[q].after /\ q \notin call[p].after

(* --------------------------- properties of the API --------------------- *)
\* HN followed by exactly six decimal digits
IsCanonicalHN(h) ==
    /\ Len(h) = 8
    /\ h[1] = "H" /\ h[2] = "N"
    /\ \A i \in 3 .. 8 : h[i] \in Digits

\* HN followed by one to five decimal digits
IsShortHN(h) ==
    /\ Len(h) \in 3 .. 7
    /\ h[1] = "H" /\ h[2] = "N"
    /\ \A i \in 3 .. Len(h) : h[i] \in Digits

\* the canonical form of a hospital number of one to six digits
PadHN(h) == <<"H", "N">> \o ZeroPad(SubSeq(h, 3, Len(h)), 6)

\* the step serves a request of the given method
Served(method) ==
    /\ resp'.method = method
    /\ <<resp, nOps, nDeletes>>' # <<resp, nOps, nDeletes>>

\* C12 as stated: GET /api/patients/{segment} responds 200 with the record
\* when the segment is the hn of a live record, 404 when it is a canonical
\* hn that is absent, and 400 only when the segment is not HN followed by
\* one to six digits.
C12_GetPatient ==
    (resp.method = "GET" /\ resp.segment # <<>>) =>
        /\ resp.segment \in DOMAIN patients =>
              (resp.status = 200 /\ resp.ret = <<patients[resp.segment]>>)
        /\ (IsCanonicalHN(resp.segment) /\ resp.segment \notin DOMAIN patients) =>
              resp.status = 404
        /\ resp.status = 400 =>
              ~ (IsCanonicalHN(resp.segment) \/ IsShortHN(resp.segment))

\* C13 as stated: POST of a decodable body with a canonical hn responds 201
\* with the created record when the hn is not in the store, and 409 with
\* the store unchanged when it is.
C13_CreatePatient ==
    [][(Served("POST") /\ resp'.body.valid
                       /\ IsCanonicalHN(resp'.body.patient.HN)) =>
          LET h == resp'.body.patient.HN
          IN  IF h \notin DOMAIN patients
              THEN /\ resp'.status = 201
                   /\ h \in DOMAIN patients'
                   /\ resp'.ret = <<patients'[h]>>
                   /\ SameButTimes(patients'[h], resp'.body.patient)
              ELSE /\ resp'.status = 409
                   /\ patients' = patients]_vars

\* C14 as stated: PUT /api/patients/{segment} with a decodable body, the
\* segment being a canonical hn, updates the record whose hn is the segment
\* and responds 200 with it when that record exists, and responds 404 when
\* it does not.
C14_UpdatePatient ==
    [][(Served("PUT") /\ resp'.body.valid /\ IsCanonicalHN(resp'.segment)) =>
          LET h == resp'.segment
          IN  IF h \in DOMAIN patients
              THEN /\ resp'.status = 200
                   /\ \A f \in MutableFields :
                         patients'[h][f] = resp'.body.patient[f]
                   /\ resp'.ret = <<patients'[h]>>
              ELSE /\ resp'.status = 404
                   /\ patients' = patients]_vars

\* C15 as stated: DELETE /api/patients/{segment}, the segment being a
\* canonical hn, removes the record whose hn is the segment and responds
\* 204 when it exists, and responds 404 when it does not.
C15_DeletePatient ==
    [][(Served("DELETE") /\ IsCanonicalHN(resp'.segment)) =>
          LET h == resp'.segment
          IN  IF h \in DOMAIN patients
              THEN /\ resp'.status = 204
                   /\ DOMAIN patients' = DOMAIN patients \ {h}
              ELSE /\ resp'.status = 404
                   /\ patients' = patients]_vars

\* C16 as stated: a POST whose body has a short hn (HN and one to five
\* digits) that is new to the store yields 201 with the stored hn padded to
\* six digits, and a later GET of the padded hn returns that record.
C16_Normalized ==
    [][/\ (Served("POST") /\ resp'.body.valid
                          /\ IsShortHN(resp'.body.patient.HN)
                          /\ PadHN(resp'.body.patient.HN) \notin DOMAIN patients) =>
              LET h == PadHN(resp'.body.patient.HN)
              IN  /\ resp'.status = 201
                  /\ h \in DOMAIN patients'
                  /\ patients'[h].HN = h
                  /\ resp'.ret = <<patients'[h]>>
       /\ Served("GET") =>
              \A r \in created :
                  (/\ IsShortHN(r.HN)
                   /\ resp'.segment = PadHN(r.HN)
                   /\ updated = {}) =>
                      /\ resp'.status = 200
                      /\ resp'.ret[1].HN = PadHN(r.HN)
                      /\ \A f \in MutableFields : resp'.ret[1][f] = r[f]]_vars

\* C17 as stated: whatever POST and PUT requests are served, every live
\* record's hn is HN followed by exactly six decimal digits.
C17_CanonicalStore ==
    \A k \in DOMAIN patients : IsCanonicalHN(k) /\ IsCanonicalHN(patients[k].HN)

(* ------------- properties of hospital-number parsing and ages ---------- *)
\* HN followed by one to six decimal digits
IsValidRawHN(h) == IsShortHN(h) \/ IsCanonicalHN(h)

\* C18 as stated: a raw input of HN and one to six digits is parsed and
\* re-serialized as HN and the digits zero-padded to six; every other raw
\* input is rejected, by the form (formatHN on change, addLeadingZeros on
\* blur, validateHN) and by the handlers' path parsing alike.
C18_ParseHN ==
    /\ output.fn = "blur" =>
          IF IsValidRawHN(input.raw)
          THEN output.validation.isValid /\ output.hn = PadHN(input.raw)
          ELSE ~ output.validation.isValid
    /\ output.fn = "scan" =>
          IF IsValidRawHN(input.raw)
          THEN ~ output.err /\ output.hnString = PadHN(input.raw)
          ELSE output.err

\* the part of C18 about valid raw inputs
C18_ValidAccepted ==
    (output.fn \in {"blur", "scan"} /\ IsValidRawHN(input.raw)) =>
        IF output.fn = "blur"
        THEN output.validation.isValid /\ output.hn = PadHN(input.raw)
        ELSE ~ output.err /\ output.hnString = PadHN(input.raw)

\* C19: for every canonical hn, the "HN%06d" form of the integer that the
\* "HN%d" scan reads from it is that hn again; and for every integer n of
\* 0 .. 999999 the scan of its "HN%06d" form succeeds and reads n.
C19_Inverse ==
    /\ (output.fn = "scan" /\ IsCanonicalHN(input.raw)) =>
          (~ output.err /\ output.hnString = input.raw)
    /\ output.fn = "format" =>
          (/\ input.raw \in 0 .. 999999
           /\ IsCanonicalHN(output.hnString)
           /\ ~ output.err
           /\ output.id = input.raw)

\* C19 witness: an hn with leading zeros and a zero after a non-zero digit
\* has been scanned and formatted back
C19_Witness ==
    /\ output.fn = "scan"
    /\ input.raw = <<"H", "N", "0", "0", "1", "0", "9", "0">>
    /\ output.id = 1090
    /\ output.hnString = input.raw

\* the largest surrogate id has been formatted and scanned back
C19_LargestReached ==
    output.fn = "format" /\ input.raw = 999999 /\ output.id = 999999

\* C20: validateAge rejects an integer age that is 0, negative or above
\* 150, accepts 101 .. 150 with the advisory (valid, warning) and accepts
\* 1 .. 100 without advisory.
C20_ValidateAge ==
    output.fn = "age" =>
        LET age == input.raw
            v == output.validation
        IN  /\ (age <= 0 \/ age > 150) => (~ v.isValid /\ v.type = "error")
            /\ (101 <= age /\ age <= 150) => (v.isValid /\ v.type = "warning")
            /\ (1 <= age /\ age <= 100) => (v.isValid /\ v.type = "success")

\* C20 witness: 150 has been accepted with the advisory
C20_Witness ==
    /\ output.fn = "age" /\ input.raw = 150
    /\ output.validation.isValid /\ output.validation.type = "warning"

\* 151 has been rejected
C20_RejectReached ==
    output.fn = "age" /\ input.raw = 151 /\ ~ output.validation.isValid

(* ------------------------------ C21 ----------------------------------- *)
\* the digits of a typed phone
DigitsOf(phone) == Filter(phone, Digits)

\* C21: of a non-empty phone, ten digits that start with 06, 08 or 09 are
\* accepted and displayed as three, three and four digits between hyphens;
\* nine digits that start with 0 are accepted; fewer than nine or more
\* than twelve digits are rejected; the empty phone is accepted, without a
\* message, as no phone.
C21_ValidatePhone ==
    output.fn = "phone" =>
        LET d == DigitsOf(input.raw)
            v == output.validation
        IN  /\ input.raw = <<>> => v.isValid /\ v.message = ""
            /\ input.raw # <<>> =>
                  /\ (Len(d) = 10 /\ d[1] = "0" /\ d[2] \in {"6", "8", "9"}) =>
                        /\ v.isValid
                        /\ output.display =
                             SubSeq(d, 1, 3) \o <<"-">> \o SubSeq(d, 4, 6)
                               \o <<"-">> \o SubSeq(d, 7, 10)
                  /\ (Len(d) = 9 /\ d[1] = "0") => v.isValid
                  /\ (Len(d) < 9 \/ Len(d) > 12) => ~ v.isValid

\* a typed mobile number was accepted and displayed in groups
C21_Witness ==
    /\ output.fn = "phone"
    /\ input.raw = <<"+">> \o PhoneNumber(<<"0", "8">>, 10)
    /\ output.validation.isValid
    /\ output.display = <<"0", "8", "3", "-", "4", "5", "6", "-", "7", "8", "9", "0">>

\* a landline number was accepted, thirteen digits and the empty phone judged
C21_LandlineReached ==
    output.fn = "phone" /\ Len(DigitsOf(input.raw)) = 9 /\ output.validation.isValid
C21_LongReached ==
    output.fn = "phone" /\ Len(DigitsOf(input.raw)) > 12 /\ ~ output.validation.isValid
C21_EmptyReached ==
    output.fn = "phone" /\ input.raw = <<>> /\ output.validation.isValid

(* ------------------------------ C29 ----------------------------------- *)
\* C29: the phone that handleInputChange stores and validates has the
\* digits of the typed value, all of them and in their order.
C29_DigitsKept ==
    output.fn = "changePhone" => DigitsOf(output.phone) = DigitsOf(input.raw)

\* up to ten typed digits are all stored
C29_TenKept ==
    (output.fn = "changePhone" /\ Len(DigitsOf(input.raw)) <= 10) =>
        DigitsOf(output.phone) = DigitsOf(input.raw)

\* eleven typed digits that start with 08 were stored as ten and accepted
C29_Truncated ==
    /\ output.fn = "changePhone"
    /\ input.raw = PhoneNumber(<<"0", "8">>, 11)
    /\ Len(DigitsOf(output.phone)) = 10
    /\ output.validation.isValid

(* ----------------------- properties of the forms ----------------------- *)
\* C22: selecting the male honorific sets the gender to male whatever it
\* was, and clearing the honorific afterwards sets the gender back to the
\* one the user had selected before the honorific.
C22_HonorificGender ==
    [][/\ (formData'.titlePrefix = Nai /\ formData.titlePrefix # Nai) =>
             formData'.gender = Chai
       /\ (formData.titlePrefix # <<>> /\ formData'.titlePrefix = <<>>) =>
             formData'.gender = supplied.gender]_vars

\* the first half of C22 alone
C22_Forced ==
    [][(formData'.titlePrefix = Nai /\ formData.titlePrefix # Nai) =>
          formData'.gender = Chai]_vars

\* the male honorific replaced the female gender that the user had selected
C22_ForcedReached ==
    formData.titlePrefix = Nai /\ formData.gender = Chai /\ supplied.gender = Ying

\* C25: whenever the selected honorific implies a gender, the gender field
\* has that gender.
C25_Agree ==
    getGenderFromPrefix(formData.titlePrefix) # "" =>
        formData.gender = getGenderFromPrefix(formData.titlePrefix)

\* C25 of the first component, whose gender select is disabled while an
\* honorific is selected
C25_AgreeFirst == component = "first" => C25_Agree

\* C26: as long as the date of birth was not edited directly, a date of
\* birth that is present gives, in whole years, the age of the form.
C26_DerivedDate ==
    (/\ component = "first"
     /\ "dateOfBirth" \notin touchedFields
     /\ formData.dateOfBirth # <<>>) =>
        WholeYears(formData.dateOfBirth) = formData.age

\* the date of birth derived from the first age gives that age
C26_FirstDerivation ==
    [][(/\ component = "first"
        /\ "dateOfBirth" \notin touchedFields'
        /\ formData.dateOfBirth = <<>>
        /\ formData'.dateOfBirth # <<>>) =>
          WholeYears(formData'.dateOfBirth) = formData'.age]_vars

\* C28: a file of more than 2 MiB never becomes the photo, and after
\* removePhoto the photo stays empty until a file is selected.
C28_Photo ==
    /\ \A file \in Files : file.size > MaxPhotoSize => formData.photo # file.name
    /\ removed => formData.photo = ""

\* the first half of C28 alone, and the frame of a rejected file
C28_SizeBound ==
    \A file \in Files : file.size > MaxPhotoSize => formData.photo # file.name
C28_RejectedFrame ==
    [][\A file \in Files :
          (file.size > MaxPhotoSize /\ HandlePhotoUpload(MaxEvents, file)) =>
              formData' = formData /\ readers' = readers]_vars

\* a file of more than 2 MiB was rejected
C28_BigReached == error = "photo size" /\ formData.photo = ""

\* the names whose validation handleSubmit of a component would reject:
\* the second component has validators for the hn and the phone only
RejectedFields(c, fd) ==
    IF c = "first"
    THEN {f \in DOMAIN ValidationResults(fd) : ~ ValidationResults(fd)[f].isValid}
    ELSE {f \in {"hn"} : ~ validateHN2(fd.hn).isValid}
           \cup {f \in {"phone"} : ~ validatePhone2(fd.phone).isValid}

\* renderValidationMessage(fieldName) shows a message
Shown(fv, touched, fieldName) ==
    /\ fv[fieldName].type # "undefined"
    /\ fieldName \in touched
    /\ fv[fieldName].message # ""

\* C24: after a submit that validation rejected, every rejected field has
\* a rejecting validation recorded, and its message is shown.
C24_AllReasons ==
    [][(HandleSubmit(MaxEvents) /\ posted' = posted) =>
          \A f \in RejectedFields(component, formData) :
              /\ ~ fieldValidations'[f].isValid
              /\ Shown(fieldValidations', touchedFields', f)]_vars

\* a submit was rejected
C24_RejectedReached == error = "fix the invalid fields"

\* C23: a submit with a rejected field posts nothing, leaves the form data
\* as they are and isSubmitting false; a request is posted only when no
\* field is rejected.
C23_Blocked ==
    [][HandleSubmit(MaxFill) =>
          IF RejectedFields(component, formData) # {}
          THEN posted' = posted /\ formData' = formData /\ isSubmitting' = FALSE
          ELSE posted' # posted]_vars

\* C23 of the first component
C23_BlockedFirst ==
    [][(component = "first" /\ HandleSubmit(MaxFill)) =>
          IF RejectedFields(component, formData) # {}
          THEN posted' = posted /\ formData' = formData /\ isSubmitting' = FALSE
          ELSE posted' # posted]_vars

\* the first component blocked a submit, and posted another
C23_BlockedReached ==
    component = "first" /\ error = "fix the invalid fields" /\ posted = <<>>
C23_PostedReached == component = "first" /\ posted # <<>>

\* C27: the fullName that is posted is the selected honorific followed by
\* the name that was typed.
C27_RoundTrip ==
    [][(component = "first" /\ posted' # posted) =>
          posted'[Len(posted')].fullName = formData.titlePrefix \o supplied.fullName]_vars


(* ------------------ properties of the store's ownership ---------------- *)
\* sanity: patients is the stored records read through their pointers
AliasLinked ==
    /\ DOMAIN ptrs = DOMAIN patients
    /\ patients = StoredView(heap, ptrs, patients)

\* C30: the state of the stored records -- what GetAll and GetByID return --
\* changes only inside a call of Create, Update or Delete; a caller that
\* modifies a record it was handed, or its own Patient after the call
\* returned (the strings behind the optional fields included), changes
\* nothing in the store
C30_StoreOwns ==
    [][patients' # patients => (nOps' # nOps \/ nDeletes' # nDeletes)]_vars

\* C30: the part about the fields held by value
C30_ValueFields == [][AssignField => patients' = patients]_vars

\* C30: the record GetByID handed out was written through afterwards, and
\* the stored record now reads the caller's string
C30_ReadWrittenReached ==
    /\ last.op = "GetByID" /\ last.err = Ok
    /\ last.ret[1].HN \in DOMAIN patients
    /\ \E f \in PointerFields :
          last.ret[1][f] # Edited /\ patients[last.ret[1].HN][f] = Edited

\* C30: the caller's Patient was written through after Create or Update
\* returned, and the stored record now reads the caller's string
C30_ArgWrittenReached ==
    /\ last.op \in {"Create", "Update"} /\ last.err = Ok
    /\ last.p.HN \in DOMAIN patients
    /\ \E f \in PointerFields :
          last.p[f] # Edited /\ patients[last.p.HN][f] = Edited

====
